---------------------------- MODULE Spec2Model ----------------------------
(***************************************************************************)
(* Polling and repair-issue core of the Proxmox VE integration:           *)
(* poll_api (coordinator.py), the per-kind coordinators' update cycles,   *)
(* what the update coordinator base class does with a cycle's result,     *)
(* and the options flow's selection change followed by a reload.          *)
(***************************************************************************)
EXTENDS Integers, Sequences, FiniteSets, TLC

VARIABLES
    issues,               \* issue registry: set of <<resource key, reason>>
    devices,              \* device registry: device identity -> via device
    polled,               \* the last direct poll_api call and what it did
    selection,            \* config_entry.data: the selected resources
    coordinators,         \* hass.data[DOMAIN][entry_id][COORDINATORS]
    pc,                   \* per coordinator: position inside _async_update_data
    loc,                  \* per coordinator: locals of the running cycle
    data,                 \* per coordinator: coordinator.data
    last_update_success,  \* per coordinator: coordinator.last_update_success
    scheduled,            \* per coordinator: a refresh is due (timer armed)
    reauth,               \* a reauthentication flow is pending for the entry
    cyc,                  \* history of the running cycle (answers seen so far)
    ended,                \* history: the cycle that ended in the last step
    loaded,               \* the entry is set up (not unloaded)
    storage_id,           \* config_entry.data[CONF_STORAGE]: the stored id
    listing,              \* history: the selected resources the upstream
                          \* had at the last setup
    cluster,              \* the names of the cluster's nodes
    entries,              \* hass.config_entries: the entries of the domain
    flow_result,          \* the result of the config flow step last run
    native,               \* the sensor state last computed from a record
    flows                 \* the user flows in progress: step and _config

vars == <<issues, devices, polled, selection, coordinators, pc, loc, data,
          last_update_success, scheduled, reauth, cyc, ended, loaded,
          storage_id, listing, cluster, entries, flow_result, native, flows>>

---------------------------------------------------------------------------
(* Resource identifiers as the call sites pass them to poll_api.  The     *)
(* options flow stores VM ids as strings, the YAML import as integers,    *)
(* and the cluster-wide scan passes None.                                 *)

NodeName == "pve"
OtherNode == "pve2"
VmId == "101"
CtId == "100"
StorageId == "storage/pve/local"
StorageName == "local"
DiskId == "/dev/sda"

\* An identifier is its Python type and its text, a sequence of tokens.
StrId(v) == [t |-> "str", v |-> <<v>>]
IntId(v) == [t |-> "int", v |-> <<v>>]
NoneId == [t |-> "none", v |-> <<"None">>]

\* f"{api_category.capitalize()} {node_name}" of ProxmoxUpdateCoordinator
UpdateId(n) == [t |-> "str", v |-> <<"Update ", n>>]

\* str(resource_id) as the f-string of the issue id renders it
IdText(rid) == rid.v

\* f"{config_entry.entry_id}_{resource_id}_forbiden" (one entry, so the
\* entry id is left out of the key)
forbiden_issue_id(rid) == <<IdText(rid), "forbiden">>

\* f"{config_entry.entry_id}_{resource}_resource_nonexistent"
nonexistent_issue_id(text) == <<text, "resource_nonexistent">>

---------------------------------------------------------------------------
(* What proxmox.get(api_path) can do.                                     *)

\* the except clause without ConnectTimeout
TransportErrorsNoTimeout == {"SSLError", "HTTPError", "ConnectionError",
                             "RetryError"}

\* the exception classes poll_api's second except clause names
TransportErrors == {"SSLError", "ConnectTimeout", "HTTPError",
                    "ConnectionError", "RetryError"}

\* "ok", or what the call raises: proxmoxer's AuthenticationError, its
\* ResourceException with status 403 or another status, and the exceptions
\* of the requests session (timeout=30 covers connecting and reading)
ApiOutcomes == {"ok", "AuthenticationError", "Forbidden403",
                "ResourceException", "SSLError", "ConnectTimeout",
                "ReadTimeout", "HTTPError", "ConnectionError", "RetryError"}

\* What a call routed to a node that is offline can do: the proxy's error
\* status (595, a ResourceException) or an exception of the session.  The
\* cluster scan can still be answered by another node.
OfflineOutcomes == {"ResourceException", "SSLError", "ConnectTimeout",
                    "ReadTimeout", "HTTPError", "ConnectionError",
                    "RetryError"}

\* ir.create_issue(hass, DOMAIN, f"..._{resource_id}_forbiden", ...)
create_issue(iss, rid) == iss \cup {forbiden_issue_id(rid)}

\* ir.delete_issue(hass, DOMAIN, f"..._{resource_id}_forbiden")
delete_issue(iss, rid) == iss \ {forbiden_issue_id(rid)}

\* The try/except of poll_api for an identifier that is a str: the outcome
\* of the call and the issue registry after it.  An exception no clause
\* names propagates as it is.
poll_api_except(iss, rid, out, issue_crete_permissions) ==
    CASE out = "ok" ->
            [ret |-> "data", issues |-> delete_issue(iss, rid)]
      [] out = "AuthenticationError" ->
            [ret |-> "ConfigEntryAuthFailed", issues |-> iss]
      [] out \in TransportErrors ->
            [ret |-> "UpdateFailed", issues |-> iss]
      [] out = "Forbidden403" /\ issue_crete_permissions ->
            [ret |-> "None", issues |-> create_issue(iss, rid)]
      [] out \in {"Forbidden403", "ResourceException"} ->
            [ret |-> "UpdateFailed", issues |-> iss]
      [] OTHER ->
            [ret |-> out, issues |-> iss]

\* poll_api taking every error status of the API for a rejected login
poll_api_fatal(iss, rid, out, issue_crete_permissions) ==
    IF out = "ResourceException"
    THEN [ret |-> "ConfigEntryAuthFailed", issues |-> iss]
    ELSE poll_api_except(iss, rid, out, issue_crete_permissions)

\* poll_api: the outcome of one call and the issue registry after it.
\*   ret: "data" (payload returned), "None", or the exception raised.
\* The placeholders of the 403 issue call resource_id.replace(...), which
\* only a str has: None and int raise AttributeError before create_issue.
poll_api(iss, rid, out, issue_crete_permissions) ==
    IF out = "Forbidden403" /\ issue_crete_permissions /\ rid.t # "str"
    THEN [ret |-> "AttributeError", issues |-> iss]
    ELSE poll_api_except(iss, rid, out, issue_crete_permissions)

Raised(ret) == ret \notin {"data", "None"}

---------------------------------------------------------------------------
(* The coordinators async_setup_entry creates, one per selected resource. *)

Coordinators == {"node", "qemu", "storage", "update", "disk"}

\* self.resource_id as each constructor sets it
resource_id(c) ==
    CASE c = "node" -> StrId(NodeName)
      [] c = "qemu" -> StrId(VmId)
      [] c = "storage" -> StrId(storage_id)
      [] c = "update" -> UpdateId(NodeName)
      [] c = "disk" -> StrId(DiskId)

\* Python's None inside payloads and locals, and the values that stand
\* for an absent optional: the UNDEFINED sentinel, coordinator.data before
\* the first result, a device without via device.
None == "None"
Val(x) == [val |-> x]
UNDEFINED == [undefined |-> TRUE]
NoneVal == [none |-> TRUE]
NoData == [type |-> None]
NoDevice == [kind |-> None]
NoLoc == [node |-> None, version |-> NoneVal, qemu |-> <<>>]
NoCycle == [forb |-> {}, allok |-> TRUE, good |-> TRUE, had |-> FALSE,
            node |-> None, wrote |-> FALSE, polls |-> 0, down |-> TRUE,
            raw |-> NoneVal, denied |-> {}, answered |-> TRUE]
NoEnd == [c |-> None]
NoConfig == [host |-> None]
NoFlow == [type |-> None, step_id |-> None, errors |-> {}, reason |-> None,
           schema |-> NoneVal, data |-> NoConfig, built |-> FALSE,
           resources |-> NoneVal, input |-> NoConfig, outcome |-> None,
           removed |-> {}, deleted |-> {}, returned |-> NoneVal]
FlowIds == {"flow1", "flow2"}
NoFlows == [f \in FlowIds |-> [step_id |-> None, config |-> NoConfig]]

\* f"{entry_id}_{api_category.upper()}_{resource_id}"
device_identifier(kind, v) == [kind |-> kind, id |-> v]

\* availability read from the presence of a record
available_with_data(c) == data[c] # NoData

\* ProxmoxEntity.available
available(c) == last_update_success[c]

\* const.UPDATE_INTERVAL, in seconds
UPDATE_INTERVAL == 60

\* update_interval=timedelta(seconds=UPDATE_INTERVAL) of every constructor
update_interval(c) == Val(UPDATE_INTERVAL)

---------------------------------------------------------------------------
(* DataUpdateCoordinator._async_refresh, the base class of every          *)
(* coordinator: the result of _async_update_data is published, any        *)
(* exception keeps the old data and clears last_update_success, and an    *)
(* authentication failure starts a reauth flow and does not re-arm the    *)
(* timer; otherwise the timer is re-armed when an update_interval is set. *)

\* A step's continuation: the cycle goes on at pc with locals l.
Continue(p, l) == [k |-> "continue", pc |-> p, loc |-> l]
\* _async_update_data returned rec.
Return(rec) == [k |-> "return", rec |-> rec]
\* _async_update_data raised exc.
Raise(exc) == [k |-> "raise", exc |-> exc]

\* a refresh whose failure is raised to the setup, which gives up: no
\* coordinator is refreshed any more
async_config_entry_first_refresh(c, nxt, h) ==
    /\ pc' = [pc EXCEPT ![c] = "idle"]
    /\ loc' = [loc EXCEPT ![c] = NoLoc]
    /\ cyc' = [cyc EXCEPT ![c] = NoCycle]
    /\ ended' = [c |-> c, ok |-> nxt.k = "return",
                 exc |-> IF nxt.k = "raise" THEN nxt.exc ELSE None,
                 forb |-> h.forb, allok |-> h.allok, good |-> h.good,
                 had |-> h.had, node |-> h.node, wrote |-> h.wrote,
                 polls |-> h.polls, down |-> h.down, raw |-> h.raw,
                 denied |-> h.denied, answered |-> h.answered,
                 prev |-> data[c], wasok |-> last_update_success[c]]
    /\ data' = IF nxt.k = "return" THEN [data EXCEPT ![c] = nxt.rec] ELSE data
    /\ last_update_success' = [last_update_success EXCEPT ![c] = nxt.k = "return"]
    /\ IF nxt.k = "raise" /\ nxt.exc = "ConfigEntryAuthFailed"
       THEN /\ reauth' = TRUE
            /\ scheduled' = [scheduled EXCEPT ![c] = FALSE]
       ELSE /\ UNCHANGED reauth
            /\ scheduled' = IF nxt.k = "raise"
                            THEN [d \in Coordinators |-> FALSE]
                            ELSE [scheduled EXCEPT ![c] = update_interval(c) # NoneVal]

async_refresh(c, nxt, h) ==
    /\ pc' = [pc EXCEPT ![c] = "idle"]
    /\ loc' = [loc EXCEPT ![c] = NoLoc]
    /\ cyc' = [cyc EXCEPT ![c] = NoCycle]
    /\ ended' = [c |-> c, ok |-> nxt.k = "return",
                 exc |-> IF nxt.k = "raise" THEN nxt.exc ELSE None,
                 forb |-> h.forb, allok |-> h.allok, good |-> h.good,
                 had |-> h.had, node |-> h.node, wrote |-> h.wrote,
                 polls |-> h.polls, down |-> h.down, raw |-> h.raw,
                 denied |-> h.denied, answered |-> h.answered,
                 prev |-> data[c], wasok |-> last_update_success[c]]
    /\ data' = IF nxt.k = "return" THEN [data EXCEPT ![c] = nxt.rec] ELSE data
    /\ last_update_success' = [last_update_success EXCEPT ![c] = nxt.k = "return"]
    /\ IF nxt.k = "raise" /\ nxt.exc = "ConfigEntryAuthFailed"
       THEN /\ reauth' = TRUE
            /\ scheduled' = [scheduled EXCEPT ![c] = FALSE]
       ELSE /\ UNCHANGED reauth
            /\ scheduled' = [scheduled EXCEPT ![c] = update_interval(c) # NoneVal]

\* One step of a cycle: the registries after it and how the cycle goes on.
Step(c, iss, devs, nxt, h) ==
    /\ loaded
    /\ issues' = iss
    /\ devices' = devs
    /\ UNCHANGED <<polled, selection, coordinators, loaded, storage_id, listing,
                   cluster, entries, flow_result, native, flows>>
    /\ IF nxt.k = "continue"
       THEN /\ pc' = [pc EXCEPT ![c] = nxt.pc]
            /\ loc' = [loc EXCEPT ![c] = nxt.loc]
            /\ cyc' = [cyc EXCEPT ![c] = h]
            /\ ended' = NoEnd
            /\ UNCHANGED <<data, last_update_success, scheduled, reauth>>
       ELSE async_refresh(c, nxt, h)

\* A cycle starts when the refresh is due and no cycle of c is running.
CanStart(c) ==
    /\ c \in coordinators
    /\ scheduled[c]
    /\ pc[c] = "idle"

\* History: the answers of the running cycle.  forb: the issue keys of
\* the polls answered 403; allok: every poll so far was answered without
\* an error; good: and with the resource's data; had: the coordinator's
\* forbidden issue was open when the cycle started; polls: the polls made;
\* node: what the first poll's listing said of the resource (its node, or
\* the node's status); wrote: the cycle called async_update_device; down:
\* every answer was one the upstream can give while the node is offline;
\* raw: the payload the published record was built from; denied: the
\* details of a node that were answered 403; answered: every poll so far
\* was answered with data or with 403.
Seen(c, first, rid, out, found) ==
    LET h == IF first
             THEN [NoCycle EXCEPT
                     !.had = forbiden_issue_id(resource_id(c)) \in issues]
             ELSE cyc[c]
    IN [h EXCEPT !.forb = IF out = "Forbidden403"
                          THEN @ \cup {IdText(rid)} ELSE @,
                 !.allok = @ /\ out = "ok",
                 !.answered = @ /\ out \in {"ok", "Forbidden403"},
                 !.good = @ /\ out = "ok" /\ found,
                 !.polls = @ + 1]

---------------------------------------------------------------------------
(* update_device_via: the guest's device is looked up or created, the     *)
(* owning node's device is looked up, and the link is written only when   *)
(* it differs from the stored one.  async_update_device leaves a field    *)
(* passed as UNDEFINED as it is.                                          *)

via_device_id(devs, node_name) ==
    IF device_identifier("NODE", <<node_name>>) \in DOMAIN devs
    THEN device_identifier("NODE", <<node_name>>)
    ELSE UNDEFINED

\* dev_reg.async_get_or_create: a new device has no via device
async_get_or_create(devs, id) ==
    IF id \in DOMAIN devs THEN devs ELSE (id :> NoDevice) @@ devs

\* dev_reg.async_update_device(device.id, via_device_id=via)
async_update_device(devs, id, via) ==
    IF via = UNDEFINED THEN devs ELSE [devs EXCEPT ![id] = via]

\* if device.via_device_id != via_device_id
link_differs(devs, kind, rid, node_name) ==
    LET id == device_identifier(kind, IdText(rid))
        got == async_get_or_create(devs, id)
    IN got[id] # via_device_id(got, node_name)

\* a reconcile that looks the guest's device up and writes nothing
get_device_only(devs, kind, rid, node_name) ==
    async_get_or_create(devs, device_identifier(kind, IdText(rid)))

update_device_via(devs, kind, rid, node_name) ==
    LET id == device_identifier(kind, IdText(rid))
        got == async_get_or_create(devs, id)
        via == via_device_id(got, node_name)
    IN IF link_differs(devs, kind, rid, node_name)
       THEN async_update_device(got, id, via)
       ELSE got

---------------------------------------------------------------------------
\* a device_info whose identifier is made of the owning node of the record
device_info_of_owner(api_category, node, rid, rec) ==
    LET owner == IF rec # NoData THEN rec.node ELSE node
    IN [identifier |-> device_identifier(api_category, <<owner, "_">> \o IdText(rid)),
        via_device |-> device_identifier("NODE", <<owner>>)]

\* device_info (__init__.py): the identifiers and the via device of the
\* device of a resource.  The coordinator's record, when there is one,
\* gives the owning node of the via device; the identifier is made of the
\* category and the resource_id argument, and of the node for a disk.
device_info(api_category, node, rid, rec) ==
    LET owner == IF rec # NoData THEN rec.node ELSE node
    IN CASE api_category \in {"QEMU", "LXC", "STORAGE"} ->
              [identifier |-> device_identifier(api_category, IdText(rid)),
               via_device |-> device_identifier("NODE", <<owner>>)]
         [] api_category \in {"NODE", "UPDATE"} ->
              [identifier |-> device_identifier("NODE", <<node>>),
               via_device |-> NoDevice]
         [] api_category = "DISK" ->
              [identifier |-> device_identifier("DISK", <<node, "_">> \o IdText(rid)),
               via_device |-> device_identifier("NODE", <<node>>)]

---------------------------------------------------------------------------
(* ProxmoxQEMUCoordinator._async_update_data                              *)

\* node of the cluster/resources entry whose vmid matches, or None
ScanBodies == cluster \cup {None}

\* nodes/{node}/qemu/{vmid}/status/current
QemuStatusBodies ==
    { [status |-> "running", lock |-> None],
      [status |-> "running", lock |-> "backup"],
      [status |-> "stopped", lock |-> "suspended"],
      [status |-> None, lock |-> None] }

\* a record whose status is the raw status field
ProxmoxVMData_raw(node_name, api_status) ==
    [type |-> "qemu", node |-> node_name,
     status |-> IF api_status.status # None THEN Val(api_status.status)
                ELSE UNDEFINED]

\* a record that keeps the owning node of the record before
ProxmoxVMData_cached(node_name, api_status) ==
    [type |-> "qemu",
     node |-> IF data["qemu"] # NoData THEN data["qemu"].node ELSE node_name,
     status |-> IF api_status.lock = "suspended" THEN Val(api_status.lock)
                ELSE IF api_status.status # None THEN Val(api_status.status)
                ELSE UNDEFINED]

ProxmoxVMData(node_name, api_status) ==
    [type |-> "qemu", node |-> node_name,
     status |-> IF api_status.lock = "suspended" THEN Val(api_status.lock)
                ELSE IF api_status.status # None THEN Val(api_status.status)
                ELSE UNDEFINED]

\* the cluster scan and the node lookup (lines 278-307)
QemuScan(c) ==
    /\ c = "qemu"
    /\ CanStart(c)
    /\ \E out \in ApiOutcomes, body \in ScanBodies :
        LET r == poll_api(issues, NoneId, out, TRUE)
            node_name == IF r.ret = "data" THEN body ELSE None
            h == [Seen(c, TRUE, NoneId, out, body # None)
                    EXCEPT !.node = body,
                           !.down = out \in OfflineOutcomes \cup {"ok"}]
        IN Step(c, r.issues, devices,
                CASE Raised(r.ret) -> Raise(r.ret)
                  [] node_name = None -> Raise("UpdateFailed")
                  [] OTHER -> Continue("status", [NoLoc EXCEPT !.node = node_name]),
                h)

\* the status poll, the device link and the record (lines 294-337)
QemuStatus(c) ==
    /\ c = "qemu"
    /\ pc[c] = "status"
    /\ \E out \in ApiOutcomes, body \in QemuStatusBodies :
        LET r == poll_api(issues, resource_id(c), out, TRUE)
            fails == r.ret = "None" \/ body.status = None
            h == [Seen(c, FALSE, resource_id(c), out, body.status # None)
                    EXCEPT !.down = @ /\ out \in OfflineOutcomes,
                           !.raw = IF Raised(r.ret) \/ fails THEN NoneVal
                                   ELSE body,
                           !.wrote = /\ ~Raised(r.ret) /\ ~fails
                                     /\ link_differs(devices, "QEMU",
                                                      resource_id(c), loc[c].node)]
        IN Step(c, r.issues,
                IF Raised(r.ret) \/ fails THEN devices
                ELSE update_device_via(devices, "QEMU", resource_id(c), loc[c].node),
                CASE Raised(r.ret) -> Raise(r.ret)
                  [] fails -> Raise("UpdateFailed")
                  [] OTHER -> Return(ProxmoxVMData(loc[c].node, body)),
                h)

---------------------------------------------------------------------------
(* ProxmoxStorageCoordinator._async_update_data                           *)

\* cluster/resources?type=storage: the storage's entry (id StorageId,
\* storage StorageName), if the upstream has one
StorageBodies ==
    { [listed |-> TRUE, content |-> "images"],
      [listed |-> TRUE, content |-> None],
      [listed |-> FALSE, content |-> None] }

\* resource["id"] == self.resource_id for the storage's entry
id_matches(rid) == rid = StrId(StorageId)

ProxmoxStorageData(node_name, api_status) ==
    [type |-> "storage", node |-> node_name,
     content |-> IF api_status.content # None THEN Val(api_status.content)
                 ELSE UNDEFINED]

\* the cluster scan (lines 463-476); a miss leaves node_name None
StorageScan(c) ==
    /\ c = "storage"
    /\ CanStart(c)
    /\ \E out \in ApiOutcomes, body \in ScanBodies :
        LET r == poll_api(issues, NoneId, out, TRUE)
            node_name == IF r.ret = "data" /\ id_matches(resource_id(c))
                         THEN body ELSE None
            h == Seen(c, TRUE, NoneId, out, TRUE)
        IN Step(c, r.issues, devices,
                IF Raised(r.ret) THEN Raise(r.ret)
                ELSE Continue("list", [NoLoc EXCEPT !.node = node_name]),
                h)

\* the storage listing and the record (lines 478-507); iterating over the
\* None that a 403 returns raises TypeError
StorageList(c) ==
    /\ c = "storage"
    /\ pc[c] = "list"
    /\ \E out \in ApiOutcomes, body \in StorageBodies :
        LET r == poll_api(issues, resource_id(c), out, TRUE)
            h == Seen(c, FALSE, resource_id(c), out,
                      body.listed /\ body.content # None)
            found == body.listed /\ id_matches(resource_id(c))
        IN Step(c, r.issues, devices,
                CASE Raised(r.ret) -> Raise(r.ret)
                  [] r.ret = "None" -> Raise("TypeError")
                  [] ~found \/ body.content = None -> Raise("UpdateFailed")
                  [] OTHER -> Return(ProxmoxStorageData(loc[c].node, body)),
                h)

---------------------------------------------------------------------------
(* ProxmoxNodeCoordinator._async_update_data                              *)

\* "nodes": the node's entry is online, has another status, is missing
\* from the list, or the list is empty
NodesBodies == {"online", "offline", "unlisted", "empty"}

Guest(name, vmid, status) == [name |-> name, vmid |-> vmid, status |-> status]

\* nodes/{node}/qemu and nodes/{node}/lxc
\* with guests that run, guests that do not, and entries without "status"
QemuLists ==
    { <<>>,
      <<Guest("vm", VmId, "running")>>,
      <<Guest("web", "104", "running"), Guest("vm", VmId, "running")>>,
      <<Guest("vm", VmId, "running"), Guest("db", "102", "stopped")>>,
      <<Guest("new", "103", None), Guest("vm", VmId, "running")>> }
LxcLists ==
    { <<>>,
      <<Guest("ct", CtId, "running")>>,
      <<Guest("dns", "202", "stopped"), Guest("ct", CtId, "running")>>,
      <<Guest("ct", CtId, "running"), Guest("tmp", "203", None)>> }

\* lxc["status"] of every entry: an entry without the key raises KeyError
has_status(guests) == \A i \in 1..Len(guests) : guests[i].status # None

\* nodes/{node}/version
VersionBodies == { [version |-> "8.1"] }

IsRunning(g) == g.status = "running"

\* the "name (vmid)" strings of the running guests, in listing order
on_list(guests) ==
    [i \in 1..Len(SelectSeq(guests, IsRunning)) |->
        <<SelectSeq(guests, IsRunning)[i].name,
          SelectSeq(guests, IsRunning)[i].vmid>>]

\* a record with the fields of an online node without guests
OnlineNodeData ==
    [type |-> "node", status |-> "online", version |-> UNDEFINED,
     qemu_on |-> 0, qemu_on_list |-> Val(<<>>),
     lxc_on |-> 0, lxc_on_list |-> Val(<<>>)]

OfflineNodeData ==
    [type |-> "node", status |-> "Offline", version |-> UNDEFINED,
     qemu_on |-> 0, qemu_on_list |-> UNDEFINED,
     lxc_on |-> 0, lxc_on_list |-> UNDEFINED]

ProxmoxNodeData(version, qemu, lxc) ==
    [type |-> "node", status |-> "online", version |-> Val(version.version),
     qemu_on |-> Len(on_list(qemu)), qemu_on_list |-> Val(on_list(qemu)),
     lxc_on |-> Len(on_list(lxc)), lxc_on_list |-> Val(on_list(lxc))]

\* the node list and the liveness lookup (lines 82-103, 176-246)
NodeList(c) ==
    /\ c = "node"
    /\ CanStart(c)
    /\ \E out \in ApiOutcomes, body \in NodesBodies :
        LET r == poll_api(issues, resource_id(c), out, TRUE)
            node_status ==
                IF r.ret # "data" \/ body = "empty" THEN ""
                ELSE IF body = "online" THEN "online" ELSE "offline"
            h == [Seen(c, TRUE, resource_id(c), out, body # "empty")
                    EXCEPT !.node = IF r.ret = "data" THEN body ELSE None]
        IN Step(c, r.issues, devices,
                CASE Raised(r.ret) -> Raise(r.ret)
                  [] node_status = "online" ->
                        Continue("status", [NoLoc EXCEPT !.node = node_status])
                  [] node_status # "" -> Return(OfflineNodeData)
                  [] OTHER -> Raise("UpdateFailed"),
                h)

\* nodes/{node}/status (lines 104-121)
NodeStatus(c) ==
    /\ c = "node"
    /\ pc[c] = "status"
    /\ \E out \in ApiOutcomes :
        LET r == poll_api(issues, resource_id(c), out, TRUE)
            h == Seen(c, FALSE, resource_id(c), out, TRUE)
        IN Step(c, r.issues, devices,
                CASE Raised(r.ret) -> Raise(r.ret)
                  [] r.ret = "None" -> Raise("UpdateFailed")
                  [] OTHER -> Continue("version", loc[c]),
                h)

\* History: the detail poll of a node's cycle was answered out
Detail(h, detail, out) ==
    [h EXCEPT !.denied = IF out = "Forbidden403" THEN @ \cup {detail} ELSE @]

\* nodes/{node}/version (lines 123-132): a 403 stores None under "version"
NodeVersion(c) ==
    /\ c = "node"
    /\ pc[c] = "version"
    /\ \E out \in ApiOutcomes, body \in VersionBodies :
        LET r == poll_api(issues, resource_id(c), out, TRUE)
            h == Detail(Seen(c, FALSE, resource_id(c), out, TRUE), "version", out)
        IN Step(c, r.issues, devices,
                IF Raised(r.ret) THEN Raise(r.ret)
                ELSE Continue("qemu",
                        [loc[c] EXCEPT !.version =
                            IF r.ret = "data" THEN body ELSE NoneVal]),
                h)

\* nodes/{node}/qemu (lines 134-153): a 403 counts no guest
NodeQemu(c) ==
    /\ c = "node"
    /\ pc[c] = "qemu"
    /\ \E out \in ApiOutcomes, body \in QemuLists :
        LET r == poll_api(issues, resource_id(c), out, TRUE)
            h == Detail(Seen(c, FALSE, resource_id(c), out, TRUE), "qemu", out)
        IN Step(c, r.issues, devices,
                IF Raised(r.ret) THEN Raise(r.ret)
                ELSE Continue("lxc",
                        [loc[c] EXCEPT !.qemu =
                            IF r.ret = "data" THEN body ELSE <<>>]),
                h)

\* nodes/{node}/lxc and the record (lines 155-244); the record reads
\* api_status["version"].get(...), which a None version does not have
NodeLxc(c) ==
    /\ c = "node"
    /\ pc[c] = "lxc"
    /\ \E out \in ApiOutcomes, body \in LxcLists :
        LET r == poll_api(issues, resource_id(c), out, TRUE)
            lxc == IF r.ret = "data" THEN body ELSE <<>>
            h == [Detail(Seen(c, FALSE, resource_id(c), out, TRUE), "lxc", out)
                    EXCEPT !.raw = Val([qemu |-> loc[c].qemu, lxc |-> lxc])]
        IN Step(c, r.issues, devices,
                CASE Raised(r.ret) -> Raise(r.ret)
                  [] ~has_status(lxc) -> Raise("KeyError")
                  [] loc[c].version = NoneVal -> Raise("AttributeError")
                  [] OTHER -> Return(ProxmoxNodeData(loc[c].version, loc[c].qemu, lxc)),
                h)

---------------------------------------------------------------------------
(* ProxmoxUpdateCoordinator._async_update_data                            *)

\* the most packages of a nodes/{node}/apt/update payload
MaxUpdates == 2

\* "Title" and "Version" of a package, as sequences of code points
Titles == { <<97>>, <<97, 97>>, <<98>> }
Versions == { <<49>>, <<50>> }

Packages == [Title : Titles, Version : Versions]

\* nodes/{node}/apt/update
AptBodies == UNION { [1..n -> Packages] : n \in 0..MaxUpdates }

\* f"{update['Title']} - {update['Version']}"
title_version(update) == update.Title \o <<32, 45, 32>> \o update.Version

\* the order of Python's str: by code point, a proper prefix first
RECURSIVE str_le(_, _)
str_le(a, b) ==
    IF a = <<>> THEN TRUE
    ELSE IF b = <<>> THEN FALSE
    ELSE IF Head(a) # Head(b) THEN Head(a) < Head(b)
    ELSE str_le(Tail(a), Tail(b))

\* a list that is left in the order of the payload
unsorted(l) == l

\* list.sort(): the strings in ascending order, equal ones in their order
RECURSIVE sort(_)
sort(l) ==
    IF l = <<>> THEN <<>>
    ELSE LET rest == sort(Tail(l))
             before == SelectSeq(rest, LAMBDA x : ~str_le(Head(l), x))
             after == SelectSeq(rest, LAMBDA x : str_le(Head(l), x))
         IN before \o <<Head(l)>> \o after

\* the record of a node that is not online or whose listing is forbidden
UndefinedUpdateData ==
    [type |-> "update", node |-> NodeName, total |-> UNDEFINED,
     updates_list |-> UNDEFINED, update |-> UNDEFINED]

ProxmoxUpdateData(api_status) ==
    LET updates_list == sort([i \in 1..Len(api_status) |->
                                title_version(api_status[i])])
        total == Len(updates_list)
    IN [type |-> "update", node |-> NodeName, total |-> Val(total),
        updates_list |-> Val(updates_list), update |-> Val(total > 0)]

\* the node list and the liveness lookup (lines 594-613, 630-637); without
\* an online node no listing is fetched
UpdateNodes(c) ==
    /\ c = "update"
    /\ CanStart(c)
    /\ \E out \in ApiOutcomes, body \in NodesBodies :
        LET r == poll_api(issues, StrId(NodeName), out, TRUE)
            h == [Seen(c, TRUE, StrId(NodeName), out, body = "online")
                    EXCEPT !.node = IF r.ret = "data" THEN body ELSE None]
        IN Step(c, r.issues, devices,
                CASE Raised(r.ret) -> Raise(r.ret)
                  [] r.ret = "data" /\ body = "online" -> Continue("apt", NoLoc)
                  [] OTHER -> Return(UndefinedUpdateData),
                h)

\* nodes/{node}/apt/update and the record (lines 615-654)
UpdateApt(c) ==
    /\ c = "update"
    /\ pc[c] = "apt"
    /\ \E out \in ApiOutcomes, body \in AptBodies :
        LET r == poll_api(issues, resource_id(c), out, TRUE)
            h == [Seen(c, FALSE, resource_id(c), out, TRUE)
                    EXCEPT !.raw = IF r.ret = "data" THEN Val(body)
                                   ELSE NoneVal]
        IN Step(c, r.issues, devices,
                CASE Raised(r.ret) -> Raise(r.ret)
                  [] r.ret = "None" -> Return(UndefinedUpdateData)
                  [] OTHER -> Return(ProxmoxUpdateData(body)),
                h)

---------------------------------------------------------------------------
(* async_setup_entry and the flows that reload the entry.                 *)

\* The stored identifier of r when the storage's is sid.
stored_id(r, sid) == IF r = "storage" THEN StrId(sid) ELSE resource_id(r)

\* The membership tests of async_setup_entry against the live resources
\* (live: the kinds the upstream has): the node's name among the "node"
\* fields of nodes, the VM's id among the "vmid" fields and the stored
\* storage id among the "storage" fields of cluster/resources, where the
\* storage's entry is [id |-> StorageId, storage |-> StorageName].
found_at_setup(sid, live) ==
    { r \in live : r = "storage" => sid = StorageName }

\* The setup part of a reload: a selected resource that passes the test
\* loses its resource_nonexistent issue and gets a coordinator, one that
\* does not gets the issue and no coordinator.
setup_issues(iss, sel, sid, live) ==
    (iss \ { nonexistent_issue_id(IdText(stored_id(r, sid))) :
                r \in sel \cap found_at_setup(sid, live) })
        \cup { nonexistent_issue_id(IdText(stored_id(r, sid))) :
                r \in sel \ found_at_setup(sid, live) }

setup_coordinators(sel, sid, live) == sel \cap found_at_setup(sid, live)

\* A reload: the old coordinators are dropped and async_setup_entry
\* constructs new ones, whose first refresh is due.  flow: a reauth flow
\* is still open after it.
async_reload(iss, devs, sel, sid, live, flow) ==
    /\ issues' = setup_issues(iss, sel, sid, live)
    /\ devices' = devs
    /\ selection' = sel
    /\ storage_id' = sid
    /\ listing' = sel \cap live
    /\ loaded' = TRUE
    /\ coordinators' = setup_coordinators(sel, sid, live)
    /\ pc' = [c \in Coordinators |-> "idle"]
    /\ loc' = [c \in Coordinators |-> NoLoc]
    /\ data' = [c \in Coordinators |-> NoData]
    /\ last_update_success' = [c \in Coordinators |-> TRUE]
    /\ scheduled' = [c \in Coordinators |-> c \in setup_coordinators(sel, sid, live)]
    /\ reauth' = flow
    /\ cyc' = [c \in Coordinators |-> NoCycle]
    /\ ended' = NoEnd
    /\ UNCHANGED <<polled, cluster, entries, flow_result, native, flows>>

\* No cycle is between two polls.
Quiet == \A c \in Coordinators : pc[c] = "idle"

\* reauth_confirm with working credentials (config_flow.py lines 698-715)
reauth_confirm ==
    /\ reauth
    /\ loaded
    /\ Quiet
    /\ \E live \in SUBSET Coordinators :
        async_reload(issues, devices, selection, storage_id, live, FALSE)

\* the device identity the options flow removes for a deselected resource
selection_device(r) ==
    device_identifier(CASE r = "node" -> "NODE"
                        [] r = "qemu" -> "QEMU"
                        [] r = "storage" -> "STORAGE",
                      IdText(resource_id(r)))

\* async_process_selection_changes: the device and the
\* resource_nonexistent issue of every deselected resource are removed
process_selection_issues(iss, old, new) ==
    iss \ { nonexistent_issue_id(IdText(resource_id(r))) : r \in old \ new }

process_selection_devices(devs, old, new) ==
    [d \in DOMAIN devs \ { selection_device(r) : r \in old \ new } |-> devs[d]]

\* the resources the form of these runs offers: a VM and a storage
Exposed == {"qemu", "storage"}

\* The storage ids the form lets the operator store: the one stored
\* before (old_storage) and the "id" field of the storage's entry.
offered_storage_ids(old) ==
    (IF "storage" \in old THEN {storage_id} ELSE {}) \cup {StorageId}

\* async_step_change_expose with the operator's selection: the changes
\* are processed, the entry is updated and reloaded
change_expose ==
    /\ loaded
    /\ Quiet
    /\ \E new \in SUBSET Exposed, live \in SUBSET Exposed :
       \E sid \in IF "storage" \in new THEN offered_storage_ids(selection)
                   ELSE {storage_id} :
        async_reload(process_selection_issues(issues, selection, new),
                     process_selection_devices(devices, selection, new),
                     new, sid, live, reauth)

---------------------------------------------------------------------------
(* async_unload_entry: the platforms are unloaded, which removes every    *)
(* listener and with it every pending timer, and the entry's coordinators *)
(* are popped from hass.data.  Nothing stops a poll_api that already runs *)
(* in its worker thread.                                                  *)

async_unload_entry ==
    /\ loaded
    /\ loaded' = FALSE
    /\ coordinators' = {}
    /\ scheduled' = [c \in Coordinators |-> FALSE]
    /\ ended' = NoEnd
    /\ UNCHANGED <<issues, devices, polled, selection, pc, loc, data,
                   last_update_success, reauth, cyc, storage_id, listing,
                   cluster, entries, flow_result, native, flows>>

\* The poll that was in flight at the unload is answered: poll_api's
\* worker handles the answer as ever (its issue-registry calls included);
\* the cycle that awaited it is dropped with the coordinator, so that no
\* record is published.
poll_after_unload(c) ==
    /\ ~loaded
    /\ pc[c] # "idle"
    /\ \E out \in ApiOutcomes :
        issues' = poll_api(issues, resource_id(c), out, TRUE).issues
    /\ pc' = [pc EXCEPT ![c] = "idle"]
    /\ loc' = [loc EXCEPT ![c] = NoLoc]
    /\ cyc' = [cyc EXCEPT ![c] = NoCycle]
    /\ ended' = NoEnd
    /\ UNCHANGED <<devices, polled, selection, coordinators, data,
                   last_update_success, scheduled, reauth, loaded,
                   storage_id, listing, cluster, entries, flow_result, native, flows>>

\* The entry is set up again after an unload.
async_setup_entry ==
    /\ ~loaded
    /\ Quiet
    /\ \E live \in SUBSET selection :
        async_reload(issues, devices, selection, storage_id, live, reauth)

---------------------------------------------------------------------------
(* The calls of poll_api, one at a time.                                  *)

\* (api_category, resource_id) of every call in coordinator.py.  A VM or
\* container id is a str when a flow stored it and an int when the YAML
\* import did; the cluster scans pass no resource_id.
CallSites ==
    { <<"nodes", StrId(NodeName)>>, <<"qemu", StrId(NodeName)>>,
      <<"lxc", StrId(NodeName)>>, <<"resources", NoneId>>,
      <<"qemu", StrId(VmId)>>, <<"qemu", IntId(VmId)>>,
      <<"lxc", StrId(CtId)>>, <<"lxc", IntId(CtId)>>,
      <<"storage", StrId(StorageId)>>,
      <<"update", UpdateId(NodeName)>>, <<"disk", StrId(DiskId)>> }

\* a coordinator: its kind and, for the coordinators of a node's parts,
\* the node
Caller(c, node) == [c |-> c, node |-> node]

\* The coordinators that make the call: the node's coordinator and the
\* coordinator of its updates both list "nodes" under the node's name,
\* the three coordinators of cluster resources scan cluster/resources,
\* and every node has a coordinator for each of its disks.
Callers(site) ==
    CASE site[1] = "nodes" -> {Caller("node", NodeName), Caller("update", NodeName)}
      [] site[1] = "resources" ->
           {Caller("qemu", None), Caller("lxc", None), Caller("storage", None)}
      [] site[2] = StrId(NodeName) -> {Caller("node", NodeName)}
      [] site[1] = "update" -> {Caller("update", NodeName)}
      [] site[1] = "disk" -> {Caller("disk", NodeName), Caller("disk", OtherNode)}
      [] OTHER -> {Caller(site[1], None)}

\* One call: the arguments, the answer, the outcome, the registry before
\* it and the coordinator that made it are kept in polled.
poll_call ==
    \E site \in CallSites, out \in ApiOutcomes, flag \in BOOLEAN :
      \E by \in Callers(site) :
        LET r == poll_api(issues, site[2], out, flag)
        IN /\ issues' = r.issues
           /\ polled' = [api_category |-> site[1], resource_id |-> site[2],
                         out |-> out, issue_crete_permissions |-> flag,
                         ret |-> r.ret, before |-> issues, by |-> by]
           /\ UNCHANGED <<devices, selection, coordinators, pc, loc, data,
                          last_update_success, scheduled, reauth, cyc, ended,
                          loaded, storage_id, listing,
                   cluster, entries, flow_result, native, flows>>

---------------------------------------------------------------------------
(* Specifications.  Init is the entry set up with its coordinators        *)
(* constructed and no refresh made yet.                                   *)

InitCoordinators(cs) ==
    /\ issues = {}
    /\ devices = <<>>
    /\ polled = NoEnd
    /\ selection = cs
    /\ coordinators = cs
    /\ pc = [c \in Coordinators |-> "idle"]
    /\ loc = [c \in Coordinators |-> NoLoc]
    /\ data = [c \in Coordinators |-> NoData]
    /\ last_update_success = [c \in Coordinators |-> TRUE]
    /\ scheduled = [c \in Coordinators |-> c \in cs]
    /\ reauth = FALSE
    /\ cyc = [c \in Coordinators |-> NoCycle]
    /\ ended = NoEnd
    /\ loaded = TRUE
    /\ storage_id = StorageName
    /\ listing = cs
    /\ cluster = {NodeName}
    /\ entries = <<>>
    /\ flow_result = NoFlow
    /\ native = NoneVal
    /\ flows = NoFlows

NodeCycle(c) ==
    \/ NodeList(c)
    \/ NodeStatus(c)
    \/ NodeVersion(c)
    \/ NodeQemu(c)
    \/ NodeLxc(c)

QemuCycle(c) ==
    \/ QemuScan(c)
    \/ QemuStatus(c)

StorageCycle(c) ==
    \/ StorageScan(c)
    \/ StorageList(c)

\* A node and a VM of one connection.
Init == InitCoordinators({"node", "qemu"})

Next ==
    \/ \E c \in Coordinators : NodeCycle(c)
    \/ \E c \in Coordinators : QemuCycle(c)
    \/ reauth_confirm

Spec == Init /\ [][Next]_vars

\* A VM and a storage of one connection.
InitStorage == InitCoordinators({"qemu", "storage"})

NextStorage ==
    \/ \E c \in Coordinators : QemuCycle(c)
    \/ \E c \in Coordinators : StorageCycle(c)

SpecStorage == InitStorage /\ [][NextStorage]_vars

\* The operator changes the selection between cycles.
NextSelect ==
    \/ \E c \in Coordinators : QemuCycle(c)
    \/ \E c \in Coordinators : StorageCycle(c)
    \/ change_expose

\* Every coordinator's timer fires when it is due and the polls of a
\* running cycle are answered.
SpecSelect ==
    /\ InitStorage
    /\ [][NextSelect]_vars
    /\ WF_vars(\E c \in Coordinators : QemuCycle(c))
    /\ WF_vars(\E c \in Coordinators : StorageCycle(c))

\* the step ends the cycle running at "from" with the resource's data, or
\* takes it further with every poll so far answered with it
GoodStep(c, from) ==
    /\ pc[c] = from
    /\ IF pc'[c] = "idle" THEN ended'.c = c /\ ended'.good ELSE cyc'[c].good

\* The timers fire when due, and the upstream answers a poll that is made
\* again and again with the resource's data at some time.
FairSpec ==
    /\ InitStorage
    /\ [][NextStorage]_vars
    /\ WF_vars(\E c \in Coordinators : QemuCycle(c))
    /\ WF_vars(\E c \in Coordinators : StorageCycle(c))
    /\ SF_vars(QemuScan("qemu") /\ GoodStep("qemu", "idle"))
    /\ SF_vars(QemuStatus("qemu") /\ GoodStep("qemu", "status"))
    /\ SF_vars(StorageScan("storage") /\ GoodStep("storage", "idle"))
    /\ SF_vars(StorageList("storage") /\ GoodStep("storage", "list"))

\* The calls of poll_api in any order, with any answer.
InitPoll == InitCoordinators({})

NextPoll == poll_call

SpecPoll == InitPoll /\ [][NextPoll]_vars

\* The device registry with a device for each node of ns: the nodes of
\* the selection whose first refresh brought a record (device_info with
\* create=True at the end of async_setup_entry).
node_devices(ns) ==
    [id \in { device_identifier("NODE", <<n>>) : n \in ns } |-> NoDevice]

\* A VM of a cluster of two nodes, of which some have a device.
InitGuest ==
    /\ issues = {}
    /\ \E ns \in SUBSET {NodeName, OtherNode} : devices = node_devices(ns)
    /\ polled = NoEnd
    /\ selection = {"qemu"}
    /\ coordinators = {"qemu"}
    /\ pc = [c \in Coordinators |-> "idle"]
    /\ loc = [c \in Coordinators |-> NoLoc]
    /\ data = [c \in Coordinators |-> NoData]
    /\ last_update_success = [c \in Coordinators |-> TRUE]
    /\ scheduled = [c \in Coordinators |-> c = "qemu"]
    /\ reauth = FALSE
    /\ cyc = [c \in Coordinators |-> NoCycle]
    /\ ended = NoEnd
    /\ loaded = TRUE
    /\ storage_id = StorageName
    /\ listing = {"qemu"}
    /\ cluster = {NodeName, OtherNode}
    /\ entries = <<>>
    /\ flow_result = NoFlow
    /\ native = NoneVal
    /\ flows = NoFlows

NextGuest == \E c \in Coordinators : QemuCycle(c)

SpecGuest == InitGuest /\ [][NextGuest]_vars

\* A node alone.
InitNode == InitCoordinators({"node"})

NextNode == \E c \in Coordinators : NodeCycle(c)

SpecNode == InitNode /\ [][NextNode]_vars

UpdateCycle(c) ==
    \/ UpdateNodes(c)
    \/ UpdateApt(c)

\* The update coordinator of a node alone.
InitUpdate == InitCoordinators({"update"})

NextUpdate == \E c \in Coordinators : UpdateCycle(c)

SpecUpdate == InitUpdate /\ [][NextUpdate]_vars

\* The entry is unloaded and set up again while its coordinators poll.
NextUnload ==
    \/ \E c \in Coordinators : QemuCycle(c)
    \/ \E c \in Coordinators : StorageCycle(c)
    \/ async_unload_entry
    \/ \E c \in Coordinators : poll_after_unload(c)
    \/ async_setup_entry

SpecUnload == InitStorage /\ [][NextUnload]_vars

---------------------------------------------------------------------------
(* Properties.                                                            *)

Called == polled # NoEnd

\* C1: every call answered 403 with issue creation enabled returns None
\* and leaves the forbidden issue of its resource open, whatever call site
\* made it.
C1_ForbiddenOpensIssue ==
    (Called /\ polled.out = "Forbidden403" /\ polled.issue_crete_permissions)
        => /\ polled.ret = "None"
           /\ forbiden_issue_id(polled.resource_id) \in issues

\* the cluster scan, which passes no resource_id, was answered 403
C1_ScanForbidden ==
    /\ Called
    /\ polled.api_category = "resources"
    /\ polled.out = "Forbidden403"
    /\ polled.issue_crete_permissions
    /\ polled.ret = "AttributeError"

\* C6 as stated: an AuthenticationError raises ConfigEntryAuthFailed, every
\* TLS, timeout or connection error raises UpdateFailed, and neither
\* touches the issue registry.
C6_EveryTimeoutUpdateFailed ==
    Called =>
        /\ polled.out = "AuthenticationError"
              => polled.ret = "ConfigEntryAuthFailed" /\ issues = polled.before
        /\ polled.out \in {"SSLError", "ConnectTimeout", "ReadTimeout",
                           "HTTPError", "ConnectionError", "RetryError"}
              => polled.ret = "UpdateFailed" /\ issues = polled.before

\* C6: an AuthenticationError raises ConfigEntryAuthFailed; an SSLError,
\* ConnectTimeout, HTTPError, ConnectionError or RetryError raises
\* UpdateFailed; a read timeout leaves poll_api as the exception it is,
\* neither None nor ConfigEntryAuthFailed; none of them touches the issue
\* registry.
C6_FailureOutcomes ==
    Called =>
        /\ polled.out = "AuthenticationError"
              => polled.ret = "ConfigEntryAuthFailed" /\ issues = polled.before
        /\ polled.out \in {"SSLError", "ConnectTimeout", "HTTPError",
                           "ConnectionError", "RetryError"}
              => polled.ret = "UpdateFailed" /\ issues = polled.before
        /\ polled.out = "ReadTimeout"
              => polled.ret = "ReadTimeout" /\ issues = polled.before

\* a connection timeout while the forbidden issue of the resource is open
C6_TimeoutWithOpenIssue ==
    /\ Called
    /\ polled.out = "ConnectTimeout"
    /\ polled.ret = "UpdateFailed"
    /\ forbiden_issue_id(polled.resource_id) \in polled.before

---------------------------------------------------------------------------
(* Properties of the cycles.  ended describes the cycle that the last     *)
(* step finished.                                                         *)

Ended(c) == ended # NoEnd /\ ended.c = c

\* C2 as stated: after a cycle of the storage coordinator in which a poll
\* was answered 403 the coordinator's result is not fresh and the
\* storage's forbidden issue is open; after a cycle that started with the
\* issue open and whose polls all succeeded the issue is deleted and the
\* coordinator has published a record.
C2_StorageForbiddenThenReady ==
    Ended("storage") =>
        /\ ended.forb # {}
              => /\ ~available("storage")
                 /\ forbiden_issue_id(resource_id("storage")) \in issues
        /\ (ended.had /\ ended.allok)
              => /\ forbiden_issue_id(resource_id("storage")) \notin issues
                 /\ available("storage")
                 /\ data["storage"] # NoData

\* the storage coordinator's cluster scan was answered 403
C2_StorageScanForbidden ==
    /\ Ended("storage")
    /\ ended.forb = {IdText(NoneId)}
    /\ ended.exc = "AttributeError"

\* C3: when a cycle ends, the forbidden issue of every resource for which
\* one of its polls was answered 403 is open.
C3_ForbiddenIssueOpenAtEnd ==
    ended # NoEnd =>
        \A k \in ended.forb \ {IdText(NoneId)} : <<k, "forbiden">> \in issues

\* a node cycle with a poll answered 403 ends with the node's issue deleted
C3_DeletedInSameCycle ==
    /\ Ended("node")
    /\ IdText(resource_id("node")) \in ended.forb
    /\ forbiden_issue_id(resource_id("node")) \notin issues

\* C4: a cycle whose polls all succeed with the coordinator's resource in
\* their payloads publishes its record, whatever the other coordinators'
\* polls are answered.
C4_SiblingIndependent ==
    (ended # NoEnd /\ ended.good) =>
        /\ ended.ok
        /\ available(ended.c)
        /\ data[ended.c] # NoData

\* the storage's polls all succeed with the storage in their payloads
\* while the VM's forbidden issue is open
C4_GoodBesideForbidden ==
    /\ Ended("storage")
    /\ ended.good
    /\ forbiden_issue_id(resource_id("qemu")) \in issues

\* the step starts a cycle of c
StartsCycle(c) == pc[c] = "idle" /\ (pc'[c] # "idle" \/ ended'.c = c)

\* C7: while the entry waits for reauthentication after an authentication
\* failure in one coordinator's cycle, no coordinator starts a cycle.
C7_AuthFailureHaltsAll ==
    [][reauth => \A c \in Coordinators : ~StartsCycle(c)]_vars

\* the VM's cycle ended with an authentication failure and the
\* storage's refresh is still due
C7_SiblingStillScheduled ==
    /\ Ended("qemu")
    /\ ended.exc = "ConfigEntryAuthFailed"
    /\ reauth
    /\ ~scheduled["qemu"]
    /\ CanStart("storage")

\* C8: after a cycle that failed when a record was published before, the
\* coordinator's data is that record and its entities are unavailable.
C8_FailedCycleKeepsRecord ==
    (ended # NoEnd /\ ~ended.ok /\ ended.prev # NoData) =>
        /\ data[ended.c] = ended.prev
        /\ ~available(ended.c)

\* a cycle failed after an earlier one had published a record
C8_FailedAfterSuccess ==
    /\ ended # NoEnd
    /\ ~ended.ok
    /\ ended.exc = "UpdateFailed"
    /\ ended.prev # NoData
    /\ data[ended.c] # NoData

---------------------------------------------------------------------------
(* Properties of the selection.                                           *)

\* the issues whose key names the resource of r
KeyedIssues(r) ==
    { forbiden_issue_id(resource_id(r)),
      nonexistent_issue_id(IdText(resource_id(r))) }

\* C5: once a resource is removed from the selection, every issue keyed
\* to it is deleted at some time, at the latest while the remaining
\* coordinators go on polling (the resource is not selected again, no
\* reauthentication is pending, a coordinator is left).
C5_DeselectedIssuesCleared ==
    \A r \in Exposed :
        (r \notin selection)
            ~> \/ KeyedIssues(r) \cap issues = {}
               \/ r \in selection
               \/ reauth
               \/ coordinators = {}

\* the VM is deselected and the entry reloaded while its forbidden issue
\* is open
C5_ForbiddenLeftAfterDeselect ==
    /\ "qemu" \notin selection
    /\ "qemu" \notin coordinators
    /\ forbiden_issue_id(resource_id("qemu")) \in issues

---------------------------------------------------------------------------
(* Properties of retrying.                                                *)

Stale(c) == c \in coordinators /\ ~last_update_success[c]
Ready(c) == c \in coordinators /\ last_update_success[c] /\ data[c] # NoData
Retried(c) == scheduled[c] \/ pc[c] # "idle"

\* C9 (the cycles whose answers held the resource): a coordinator that
\* failed is retried unless an authentication failure stopped its timer,
\* and the first cycle after a failure whose polls all succeed with the
\* coordinator's resource in their payloads ends READY.
C9_GoodCycleReady ==
    /\ \A c \in Coordinators : Stale(c) => (Retried(c) \/ reauth)
    /\ (ended # NoEnd /\ ~ended.wasok /\ ended.good) => Ready(ended.c)

\* a cycle whose polls all brought the resource's data ended after a
\* failed one
C9_GoodCycleAfterFailure ==
    /\ ended # NoEnd
    /\ ~ended.wasok
    /\ ended.good

---------------------------------------------------------------------------
\* C11 as stated: while the entry stays unloaded no step changes a
\* coordinator's record, the issue registry or the device registry, and
\* no coordinator starts a cycle.
C11_NothingAppliedAfterUnload ==
    [][(~loaded /\ ~loaded') => /\ data' = data
                                /\ issues' = issues
                                /\ devices' = devices
                                /\ \A c \in Coordinators : ~StartsCycle(c)]_vars

\* the entry is unloaded while a poll is in flight
C11_UnloadedInFlight ==
    /\ ~loaded
    /\ \E c \in Coordinators : pc[c] # "idle"

---------------------------------------------------------------------------
\* C12: after every setup or reload, for every selected resource the
\* resource_nonexistent issue is open if and only if the upstream's listing
\* lacks the resource, and its coordinator exists if and only if the
\* listing has it.
C12_IssueIffAbsent ==
    \A r \in selection :
        /\ nonexistent_issue_id(IdText(resource_id(r))) \in issues
              <=> r \notin listing
        /\ r \in coordinators <=> r \in listing

\* a reload found a selected storage in the upstream's listing
C12_SelectedStorageListed ==
    /\ "storage" \in selection \cap listing
    /\ storage_id = StorageId

---------------------------------------------------------------------------
(* Properties of the guest's device link.                                 *)

GuestDevice == device_identifier("QEMU", IdText(resource_id("qemu")))
NodeDevice(node_name) == device_identifier("NODE", <<node_name>>)

\* the link the owning node calls for: its device, or no link
LinkFor(devs, node_name) ==
    IF NodeDevice(node_name) \in DOMAIN devs THEN NodeDevice(node_name)
    ELSE NoDevice

\* the link stored for the guest's device; a device not yet created has none
StoredLink(devs) ==
    IF GuestDevice \in DOMAIN devs THEN devs[GuestDevice] ELSE NoDevice

RefreshedGuest == ended # NoEnd /\ ended.c = "qemu" /\ ended.ok

\* C13: after every successful refresh of the VM, the link stored for its
\* device is the device of the owning node resolved in that refresh if that
\* device exists, and no link otherwise.
C13_LinkFollowsOwningNode ==
    RefreshedGuest => StoredLink(devices) = LinkFor(devices, data["qemu"].node)

\* a refresh found the VM migrated to a node without device
C13_MigratedToNodeWithoutDevice ==
    /\ RefreshedGuest
    /\ ended.prev # NoData
    /\ ended.prev.node # data["qemu"].node
    /\ NodeDevice(ended.prev.node) \in DOMAIN devices
    /\ NodeDevice(data["qemu"].node) \notin DOMAIN devices

\* C14: a successful refresh issues a device-registry update only when the
\* link the owning node calls for differs from the stored one.
C14_UpdateOnlyOnChange ==
    [][(RefreshedGuest' /\ ended'.wrote)
          => StoredLink(devices) # LinkFor(devices, data'["qemu"].node)]_vars

\* a second refresh in a row found the VM on the same node without device
C14_RepeatedWithoutNodeDevice ==
    /\ RefreshedGuest
    /\ ended.prev # NoData
    /\ ended.wasok
    /\ ended.prev.node = data["qemu"].node
    /\ NodeDevice(data["qemu"].node) \notin DOMAIN devices

\* C15: after every successful cycle of the VM, the owning node of its
\* record is the node of the VM's entry in the cluster listing fetched in
\* that cycle.
C15_NodeFromSameCycle ==
    RefreshedGuest => data["qemu"].node = ended.node

\* a refresh found the VM on another node than the record before
C15_ResolvedAfterMigration ==
    /\ RefreshedGuest
    /\ ended.prev # NoData
    /\ ended.prev.node # ended.node

---------------------------------------------------------------------------
(* Properties of the node's cycle.                                        *)

\* a cycle of the node ended whose node list was fetched and did not
\* report the node as online
NodeNotOnline ==
    /\ ended # NoEnd
    /\ ended.c = "node"
    /\ ended.node \in {"offline", "unlisted", "empty"}

\* the minimal offline record is published
MinimalRecord ==
    /\ Ready("node")
    /\ data["node"].status = "Offline"
    /\ data["node"].version = UNDEFINED
    /\ data["node"].qemu_on = 0 /\ data["node"].qemu_on_list = UNDEFINED
    /\ data["node"].lxc_on = 0 /\ data["node"].lxc_on_list = UNDEFINED

---------------------------------------------------------------------------
(* Properties of a guest whose node went offline.                         *)

\* a cycle of the VM ended that was answered as while its node is
\* offline, after a cycle that had brought a record
NodeWentOffline ==
    /\ ended # NoEnd
    /\ ended.c = "qemu"
    /\ ended.down
    /\ ended.wasok
    /\ ended.prev # NoData

\* the cycle failed, the record is kept and the next cycle is due
TransientFailure ==
    /\ ~ended.ok
    /\ data["qemu"] = ended.prev
    /\ ~last_update_success["qemu"]
    /\ scheduled["qemu"]

\* C17 as stated: the cycle after the node went offline ends with
\* UpdateFailed, keeps the record and is retried.
C17_OfflineNodeUpdateFailed ==
    NodeWentOffline => (TransientFailure /\ ended.exc = "UpdateFailed")

\* C17: the cycle after the node went offline fails with UpdateFailed, or
\* with the session's ReadTimeout when reading the answer timed out, keeps
\* the record and is retried; it never raises ConfigEntryAuthFailed.
C17_OfflineNodeTransient ==
    NodeWentOffline =>
        /\ TransientFailure
        /\ ended.exc \in {"UpdateFailed", "ReadTimeout"}
        /\ ~reauth

\* the node went offline with the VM still listed on it
C17_StatusPollOfOfflineNode ==
    /\ NodeWentOffline
    /\ ended.polls = 2
    /\ ended.node = ended.prev.node

---------------------------------------------------------------------------
\* C18: the status of every VM record published is "suspended" when the
\* status payload has lock "suspended", whatever its status field, and the
\* payload's status field otherwise.
C18_SuspendedLockWins ==
    RefreshedGuest =>
        data["qemu"].status = IF ended.raw.lock = "suspended"
                              THEN Val("suspended")
                              ELSE Val(ended.raw.status)

\* a record was built from a payload with lock "suspended" and another
\* status
C18_SuspendedWhileStopped ==
    /\ RefreshedGuest
    /\ ended.raw.lock = "suspended"
    /\ ended.raw.status # "suspended"

---------------------------------------------------------------------------
(* Properties of the Update record.                                       *)

PublishedUpdate == ended # NoEnd /\ ended.c = "update" /\ ended.ok

Sorted(l) == \A i, j \in 1..Len(l) : i < j => str_le(l[i], l[j])

\* the record counts a list in ascending order
CountsSortedList(rec) ==
    /\ rec.updates_list # UNDEFINED
    /\ rec.total = Val(Len(rec.updates_list.val))
    /\ rec.update = Val(Len(rec.updates_list.val) > 0)
    /\ Sorted(rec.updates_list.val)

\* C19 as stated: every Update record published has total equal to the
\* length of updates_list, update equal to total > 0 and updates_list in
\* ascending order.
C19_TotalIsLength ==
    PublishedUpdate => CountsSortedList(data["update"])

\* C19: an Update record built from the node's update listing holds one
\* "Title - Version" string per package of the listing in ascending order,
\* their number as total and total > 0 as update; the record published
\* when the node is not online or the listing is forbidden has the three
\* fields UNDEFINED.
C19_ListedOrUndefined ==
    PublishedUpdate =>
        IF ended.raw = NoneVal
        THEN data["update"] = UndefinedUpdateData
        ELSE /\ CountsSortedList(data["update"])
             /\ Len(data["update"].updates_list.val) = Len(ended.raw.val)
             /\ \A i \in 1..Len(ended.raw.val) :
                  \E j \in 1..Len(ended.raw.val) :
                    data["update"].updates_list.val[j]
                        = title_version(ended.raw.val[i])

\* a record was built from a listing that was not in ascending order
C19_ListingOutOfOrder ==
    /\ PublishedUpdate
    /\ ended.raw # NoneVal
    /\ Len(ended.raw.val) = 2
    /\ ~str_le(title_version(ended.raw.val[1]), title_version(ended.raw.val[2]))

---------------------------------------------------------------------------
(* Properties of the node's guest counts.                                 *)

\* the places of the entries of l whose status is "running"
RunningAt(l) == { i \in 1..Len(l) : l[i].status = "running" }

\* on holds one "name (vmid)" per running entry of l, in the order of l
ListsRunning(on, l) ==
    /\ Len(on) = Cardinality(RunningAt(l))
    /\ \A i \in RunningAt(l) :
         on[Cardinality({ j \in RunningAt(l) : j <= i })]
            = <<l[i].name, l[i].vmid>>

\* a cycle of the node ended in which the node was online and every poll
\* was answered with its payload
OnlineNodeAnswered ==
    /\ ended # NoEnd
    /\ ended.c = "node"
    /\ ended.node = "online"
    /\ ended.polls = 5
    /\ ended.allok

\* C20: the record of an online node whose listings were fetched counts
\* the entries with status "running" and lists them as "name (vmid)" in
\* listing order, for VMs and for containers; entries with another status
\* or none are not counted.
C20_CountsRunningGuests ==
    OnlineNodeAnswered =>
        /\ ended.ok
        /\ data["node"].qemu_on = Cardinality(RunningAt(ended.raw.val.qemu))
        /\ ListsRunning(data["node"].qemu_on_list.val, ended.raw.val.qemu)
        /\ data["node"].lxc_on = Cardinality(RunningAt(ended.raw.val.lxc))
        /\ ListsRunning(data["node"].lxc_on_list.val, ended.raw.val.lxc)

\* the container listing of an online node has an entry without status
C20_ContainerWithoutStatus ==
    /\ OnlineNodeAnswered
    /\ ~has_status(ended.raw.val.lxc)

---------------------------------------------------------------------------
(* Properties of the device identity.                                     *)

\* the device entities of the VM are attached to, by the VM's record
InfoDevice(rec) == device_info("QEMU", None, resource_id("qemu"), rec).identifier

---------------------------------------------------------------------------
(* The config flows (config_flow.py).  A config entry is its data; the     *)
(* entries of the domain are a list, so that two entries with the same    *)
(* data are two entries.                                                  *)

\* const.DEFAULT_PORT
DEFAULT_PORT == 8006
\* the highest TCP port (async_step_host: port > 65535 or port <= 0)
MAX_PORT == 65535
\* the entries hass.config_entries may hold in the model
MaxEntries == 2

Host == "192.168.10.101"
OtherHost == "192.168.10.152"

\* f"{host}_{port}": the key of an entry and of an import issue
host_port(host, port) == <<host, "_", ToString(port)>>

\* what ProxmoxClient.build_client raises, or "ok"
BuildOutcomes ==
    {"ok", "AuthenticationError", "SSLError", "ConnectTimeout", "Exception"}

\* every exception taken by the broad except clause
connection_general_error(out) == "general_error"

\* the except clauses of the flows' connection attempt: the error class
connection_error(out) ==
    CASE out = "AuthenticationError" -> "auth_error"
      [] out = "SSLError" -> "ssl_rejection"
      [] out = "ConnectTimeout" -> "cant_connect"
      [] OTHER -> "general_error"

\* the field of the form the error is attached to; reauth_confirm attaches
\* every error but auth_error to the base
error_field(step_id, out) ==
    CASE out = "AuthenticationError" -> "username"
      [] step_id = "reauth_confirm" -> "base"
      [] out = "SSLError" -> "verify_ssl"
      [] out = "ConnectTimeout" -> "host"
      [] OTHER -> "base"

\* [f"{entry.data.get(CONF_HOST)}_{entry.data.get(CONF_PORT)}"
\*  for entry in self._async_current_entries()]
current_entries(es) == { host_port(es[i].host, es[i].port) : i \in DOMAIN es }

\* flow results; errors are pairs <<field, error>>; built, outcome,
\* resources and input are history: the step attempted a connection, what
\* build_client did, the listing the step got, and the step's input
async_show_form(step_id, errors, schema) ==
    [NoFlow EXCEPT !.type = "form", !.step_id = step_id, !.errors = errors,
                   !.schema = schema]
async_abort(step_id, reason) ==
    [NoFlow EXCEPT !.type = "abort", !.step_id = step_id, !.reason = reason]
async_create_entry(step_id, entry) ==
    [NoFlow EXCEPT !.type = "create_entry", !.step_id = step_id, !.data = entry]
\* the step raised: the flow manager reports an unknown error
flow_raised(step_id, exc) ==
    [NoFlow EXCEPT !.type = "error", !.step_id = step_id, !.reason = exc]

---------------------------------------------------------------------------
(* Resource discovery: the classification of cluster/resources by the     *)
(* selection steps async_step_expose and async_step_change_expose.        *)

\* an entry of cluster/resources; a key the payload lacks is None
Resource(type, node, vmid, name, storage, id) ==
    [type |-> type, node |-> node, vmid |-> vmid, name |-> name,
     storage |-> storage, id |-> id]

ResNode(n) == Resource("node", n, 0, None, None, <<>>)
ResQemu(vmid, name) == Resource("qemu", NodeName, vmid, name, None, <<>>)
ResLxc(vmid, name) == Resource("lxc", NodeName, vmid, name, None, <<>>)
ResStorage(storage) ==
    Resource("storage", NodeName, 0, None, storage, <<StorageId>>)

\* the answers of get_api(proxmox, "cluster/resources"): None, or a list
Listings ==
    { NoneVal,
      Val(<<>>),
      Val(<<ResNode(NodeName), ResQemu(101, "vm"), ResLxc(100, None),
            ResStorage(StorageName)>>),
      Val(<<ResNode(NodeName), ResNode(OtherNode), ResNode(NodeName),
            ResQemu(101, None), ResQemu(101, "vm")>>),
      Val(<<ResNode(OtherNode), Resource(None, None, 0, None, None, <<>>),
            ResLxc(100, "ct")>>),
      Val(<<ResNode(NodeName), ResStorage(None)>>) }

\* lists that start from what the form shown last offered
carried_classification ==
    IF flow_result.schema # NoneVal THEN flow_result.schema.val
    ELSE [nodes |-> <<>>, qemu |-> <<>>, lxc |-> <<>>, storage |-> <<>>]

\* resource_nodes = [], resource_qemu = {}, resource_lxc = {},
\* resource_storage = {}
empty_classification ==
    [nodes |-> <<>>, qemu |-> <<>>, lxc |-> <<>>, storage |-> <<>>]

\* list.append guarded by "not in"
append_new(l, x) == IF \E i \in DOMAIN l : l[i] = x THEN l ELSE Append(l, x)

\* d[k] = v of a dict
setitem(d, k, v) == (k :> v) @@ d

\* f"{resource['vmid']} {resource['name']}" or f"{resource['vmid']}"
guest_label(r) ==
    IF r.name # None THEN <<ToString(r.vmid), " ", r.name>>
    ELSE <<ToString(r.vmid)>>

\* one turn of the loop over resources in async_step_expose; a storage
\* entry without the "storage" key raises KeyError
expose_resource(acc, r) ==
    CASE "error" \in DOMAIN acc -> acc
      [] r.type = "node" -> [acc EXCEPT !.nodes = append_new(@, r.node)]
      [] r.type = "qemu" ->
           [acc EXCEPT !.qemu = setitem(@, ToString(r.vmid), guest_label(r))]
      [] r.type = "lxc" ->
           [acc EXCEPT !.lxc = setitem(@, ToString(r.vmid), guest_label(r))]
      [] r.type = "storage" ->
           IF r.storage # None
           THEN [acc EXCEPT !.storage = setitem(@, <<r.storage>>,
                                                <<r.storage, " ">> \o r.id)]
           ELSE [error |-> "KeyError"]
      [] OTHER -> acc

\* one turn of the loop in async_step_change_expose: storages are keyed
\* by their id
change_expose_resource(acc, r) ==
    CASE r.type = "node" -> [acc EXCEPT !.nodes = append_new(@, r.node)]
      [] r.type = "qemu" ->
           [acc EXCEPT !.qemu = setitem(@, ToString(r.vmid), guest_label(r))]
      [] r.type = "lxc" ->
           [acc EXCEPT !.lxc = setitem(@, ToString(r.vmid), guest_label(r))]
      [] r.type = "storage" ->
           IF r.storage # None
           THEN [acc EXCEPT !.storage = setitem(@, r.id, r.id)]
           ELSE acc
      [] OTHER -> acc

RECURSIVE classify_expose(_, _)
classify_expose(resources, acc) ==
    IF resources = <<>> THEN acc
    ELSE classify_expose(Tail(resources), expose_resource(acc, Head(resources)))

RECURSIVE classify_change_expose(_, _)
classify_change_expose(resources, acc) ==
    IF resources = <<>> THEN acc
    ELSE classify_change_expose(Tail(resources),
                                change_expose_resource(acc, Head(resources)))

---------------------------------------------------------------------------
(* The user flow: async_step_user shows the host form, async_step_host    *)
(* checks the input, connects and goes on to async_step_expose, which     *)
(* shows the selection form and, given the selection, creates the entry.  *)

Ports == {0, DEFAULT_PORT, MAX_PORT + 1}

\* what the user gives in the host form
HostInputs ==
    { [host |-> Host, port |-> p, username |-> "root", password |-> "secret",
       realm |-> "pam", verify_ssl |-> TRUE] : p \in Ports }

\* what the user selects in the expose form
ExposeInputs ==
    { [nodes |-> <<NodeName>>, qemu |-> Val(<<VmId>>), lxc |-> Val(<<CtId>>),
       storage |-> Val(<<StorageName>>)],
      [nodes |-> <<NodeName>>, qemu |-> NoneVal, lxc |-> NoneVal,
       storage |-> NoneVal] }

\* config_entry.data; a key the data lacks is NoneVal
Entry(c, nodes, qemu, lxc, storage) ==
    [host |-> c.host, port |-> c.port, username |-> c.username,
     password |-> c.password, realm |-> c.realm, verify_ssl |-> c.verify_ssl,
     nodes |-> nodes, qemu |-> qemu, lxc |-> lxc, storage |-> storage]

\* self._config[key] = [] and the appends of the user's selection
selected(user) == IF user = NoneVal THEN Val(<<>>) ELSE user

EndFlow(f) == [flows EXCEPT ![f] = [step_id |-> None, config |-> NoConfig]]

FlowFrame ==
    UNCHANGED <<devices, polled, selection, coordinators, pc, loc, data,
                last_update_success, scheduled, reauth, cyc, ended, loaded,
                storage_id, listing, cluster, native>>

\* async_step_user: the flow starts with the empty host form
async_step_user(f) ==
    /\ flows[f].step_id = None
    /\ flows' = [flows EXCEPT ![f].step_id = "host"]
    /\ flow_result' = async_show_form("host", {}, NoneVal)
    /\ UNCHANGED <<issues, entries>>
    /\ FlowFrame

\* async_step_expose(user_input=None), called by async_step_host
expose_form(f, user_input, resources) ==
    LET schema == IF resources = NoneVal THEN empty_classification
                  ELSE classify_expose(resources.val, empty_classification)
    IN CASE resources = NoneVal ->
              /\ flow_result' = [async_abort("expose", "no_resources")
                                   EXCEPT !.built = TRUE, !.outcome = "ok",
                                          !.input = user_input]
              /\ flows' = EndFlow(f)
         [] "error" \in DOMAIN schema ->
              /\ flow_result' = [flow_raised("expose", schema.error)
                                   EXCEPT !.built = TRUE, !.outcome = "ok",
                                          !.resources = resources,
                                          !.input = user_input]
              /\ flows' = [flows EXCEPT ![f].config = user_input]
         [] OTHER ->
              /\ flow_result' = [async_show_form("expose", {}, Val(schema))
                                   EXCEPT !.built = TRUE, !.outcome = "ok",
                                          !.resources = resources,
                                          !.input = user_input]
              /\ flows' = [flows EXCEPT ![f] = [step_id |-> "expose",
                                                config |-> user_input]]

async_step_host(f) ==
    /\ flows[f].step_id = "host"
    /\ \E user_input \in HostInputs :
        CASE host_port(user_input.host, user_input.port) \in current_entries(entries) ->
               /\ flow_result' = [async_abort("host", "already_configured")
                                    EXCEPT !.input = user_input]
               /\ flows' = EndFlow(f)
          [] user_input.port > MAX_PORT \/ user_input.port <= 0 ->
               /\ flow_result' = [async_show_form("host", {<<"port", "invalid_port">>},
                                                   NoneVal)
                                    EXCEPT !.input = user_input]
               /\ UNCHANGED flows
          [] OTHER ->
               \E out \in BuildOutcomes :
                   IF out # "ok"
                   THEN /\ flow_result' =
                             [async_show_form("host", {<<error_field("host", out),
                                                         connection_error(out)>>},
                                              NoneVal)
                                EXCEPT !.built = TRUE, !.outcome = out,
                                       !.input = user_input]
                        /\ UNCHANGED flows
                   ELSE \E resources \in Listings :
                            expose_form(f, user_input, resources)
    /\ UNCHANGED <<issues, entries>>
    /\ FlowFrame

\* async_step_expose with the user's selection
async_step_expose(f) ==
    /\ flows[f].step_id = "expose"
    /\ Len(entries) < MaxEntries
    /\ \E user_input \in ExposeInputs :
        LET entry == Entry(flows[f].config, Val(user_input.nodes),
                           selected(user_input.qemu), selected(user_input.lxc),
                           selected(user_input.storage))
        IN /\ entries' = Append(entries, entry)
           /\ flow_result' = async_create_entry("expose", entry)
    /\ flows' = EndFlow(f)
    /\ UNCHANGED issues
    /\ FlowFrame

---------------------------------------------------------------------------
(* async_step_import: the import of the YAML configuration.               *)

\* a node of the YAML configuration
NodeData(node, vms, containers) ==
    [node |-> node, vms |-> vms, containers |-> containers]

\* the YAML configurations; the configuration has no "node" key of its own
ImportConfigs ==
    { [host |-> Host, port |-> DEFAULT_PORT, username |-> "root",
       password |-> "secret", realm |-> "pam", verify_ssl |-> TRUE,
       node |-> None, nodes |-> ns] :
      ns \in { <<NodeData(NodeName, <<"100", VmId>>, <<"201">>)>>,
               <<NodeData("not_exist", <<"100", VmId>>, <<"201">>)>>,
               <<NodeData(NodeName, <<VmId>>, <<>>),
                 NodeData("not_exist", <<"102">>, <<"202">>)>> } }

\* the answers of get_api(proxmox, "nodes"): None, or the nodes' names
NodesListings == { NoneVal, Val(<<NodeName>>), Val(<<NodeName, OtherNode>>) }

\* every failed connection reported as a general error
import_general_error(out) == "import_general_error"

\* the translation key of the issue of a failed connection
import_error(out) ==
    CASE out = "AuthenticationError" -> "import_auth_error"
      [] out = "SSLError" -> "import_ssl_rejection"
      [] out = "ConnectTimeout" -> "import_cant_connect"
      [] OTHER -> "import_general_error"

\* f"{host}_{port}_import_..." of the issue registry
import_issue_id(config, text) ==
    <<host_port(config.host, config.port), text>>

\* f"{host}_{port}_{import_config.get(CONF_NODE)}_import_node_not_exist"
node_not_exist_issue_id(config, node) ==
    <<host_port(config.host, config.port) \o <<"_", config.node>>,
      "import_node_not_exist">>

\* the loop over the nodes of the configuration: the entry's nodes, VMs
\* and containers and the issues of the nodes the upstream does not have
RECURSIVE import_nodes(_, _, _, _)
import_nodes(config, import_nodes_left, proxmox_nodes_host, acc) ==
    IF import_nodes_left = <<>> THEN acc
    ELSE LET node_data == Head(import_nodes_left)
             exists == \E i \in DOMAIN proxmox_nodes_host :
                          proxmox_nodes_host[i] = node_data.node
         IN import_nodes(config, Tail(import_nodes_left), proxmox_nodes_host,
              IF exists
              THEN [acc EXCEPT !.nodes = Append(@, node_data.node),
                               !.qemu = Val(node_data.vms),
                               !.lxc = Val(node_data.containers)]
              ELSE [acc EXCEPT !.issues =
                       @ \cup {node_not_exist_issue_id(config, node_data.node)}])

async_step_import ==
    \E import_config \in ImportConfigs :
        /\ IF host_port(import_config.host, import_config.port)
                 \in current_entries(entries)
           THEN /\ issues' = issues \cup
                     {import_issue_id(import_config, "import_already_configured")}
                /\ flow_result' = [async_abort("import", "import_failed")
                                     EXCEPT !.input = import_config]
                /\ UNCHANGED entries
           ELSE \E out \in BuildOutcomes :
             IF out # "ok"
             THEN /\ issues' = issues \cup
                        {import_issue_id(import_config, import_error(out))}
                  /\ flow_result' = [async_abort("import", "import_failed")
                                       EXCEPT !.built = TRUE, !.outcome = out,
                                              !.input = import_config]
                  /\ UNCHANGED entries
             ELSE \E proxmox_nodes \in NodesListings :
                  LET proxmox_nodes_host ==
                          IF proxmox_nodes = NoneVal THEN <<>> ELSE proxmox_nodes.val
                      got == import_nodes(import_config, import_config.nodes,
                                          proxmox_nodes_host,
                                          [nodes |-> <<>>, qemu |-> NoneVal,
                                           lxc |-> NoneVal, issues |-> issues])
                      entry == Entry(import_config, Val(got.nodes), got.qemu,
                                     got.lxc, NoneVal)
                  IN /\ Len(entries) < MaxEntries
                     /\ issues' = got.issues \cup
                           {import_issue_id(import_config, "import_success")}
                     /\ entries' = Append(entries, entry)
                     /\ flow_result' = [async_create_entry("import", entry)
                                          EXCEPT !.built = TRUE, !.outcome = out,
                                                 !.resources = proxmox_nodes,
                                                 !.input = import_config]
        /\ UNCHANGED flows
        /\ FlowFrame

---------------------------------------------------------------------------
(* The credential flows: async_step_reauth_confirm of the config flow and *)
(* async_step_host_auth of the options flow.                              *)

\* what the user gives in the credential forms; reauth_confirm's form has
\* no verify_ssl
AuthInputs ==
    { [username |-> "root", password |-> "secret", realm |-> "pam",
       verify_ssl |-> TRUE],
      [username |-> "admin", password |-> "changed", realm |-> "pve",
       verify_ssl |-> FALSE] }

\* config_data.update(...) of async_step_host_auth
host_auth_update(entry, user_input) ==
    [entry EXCEPT !.username = user_input.username,
                  !.password = user_input.password,
                  !.realm = user_input.realm,
                  !.verify_ssl = user_input.verify_ssl]

\* an update that takes every field of the input
update_every_field(entry, user_input) ==
    [entry EXCEPT !.username = user_input.username,
                  !.password = user_input.password,
                  !.realm = user_input.realm,
                  !.verify_ssl = user_input.verify_ssl]

\* config_data.update(...) of async_step_reauth_confirm
reauth_update(entry, user_input) ==
    [entry EXCEPT !.username = user_input.username,
                  !.password = user_input.password,
                  !.realm = user_input.realm]

\* the update of the entry and the result (lines 698-715); the reload of
\* the entry that follows is the action reauth_confirm
async_step_reauth_confirm ==
    \E e \in DOMAIN entries, user_input \in AuthInputs, out \in BuildOutcomes :
        /\ IF out # "ok"
           THEN /\ flow_result' =
                     [async_show_form("reauth_confirm",
                                      {<<error_field("reauth_confirm", out),
                                         connection_error(out)>>}, NoneVal)
                        EXCEPT !.built = TRUE, !.outcome = out,
                               !.input = user_input]
                /\ UNCHANGED entries
           ELSE /\ entries' = [entries EXCEPT
                                  ![e] = reauth_update(@, user_input)]
                /\ flow_result' = [async_abort("reauth_confirm", "reauth_successful")
                                     EXCEPT !.built = TRUE, !.outcome = out,
                                            !.input = user_input]
        /\ UNCHANGED <<issues, flows>>
        /\ FlowFrame

async_step_host_auth ==
    \E e \in DOMAIN entries, user_input \in AuthInputs, out \in BuildOutcomes :
        /\ IF out # "ok"
           THEN /\ flow_result' =
                     [async_show_form("host_auth",
                                      {<<error_field("host_auth", out),
                                         connection_error(out)>>}, NoneVal)
                        EXCEPT !.built = TRUE, !.outcome = out,
                               !.input = user_input]
                /\ UNCHANGED entries
           ELSE /\ entries' = [entries EXCEPT
                                  ![e] = host_auth_update(@, user_input)]
                /\ flow_result' = [async_abort("host_auth", "changes_successful")
                                     EXCEPT !.built = TRUE, !.outcome = out,
                                            !.input = user_input]
        /\ UNCHANGED <<issues, flows>>
        /\ FlowFrame

---------------------------------------------------------------------------
(* async_step_change_expose(user_input=None) of the options flow: the     *)
(* selection form, which starts from the entry's selection.  An entry     *)
(* whose data lacks one of the lists raises KeyError.                     *)

\* str(x) for x in the entry's list, as dict keys without labels
RECURSIVE fromkeys(_, _)
fromkeys(old, d) ==
    IF old = <<>> THEN d ELSE fromkeys(Tail(old), setitem(d, Head(old), <<>>))

\* {**dict.fromkeys(old), **resource}
merged(old, resource) == resource @@ fromkeys(old, <<>>)

RECURSIVE as_keys(_)
as_keys(l) == IF l = <<>> THEN <<>> ELSE <<<<Head(l)>>>> \o as_keys(Tail(l))

change_expose_form ==
    \E e \in DOMAIN entries :
        /\ IF NoneVal \in {entries[e].qemu, entries[e].lxc, entries[e].storage}
           THEN flow_result' = flow_raised("change_expose", "KeyError")
           ELSE \E out \in BuildOutcomes :
             IF out # "ok"
             THEN flow_result' = [async_abort("change_expose", connection_error(out))
                                    EXCEPT !.built = TRUE]
             ELSE \E resources \in Listings :
                LET got == classify_change_expose(
                               IF resources = NoneVal THEN <<>> ELSE resources.val,
                               [empty_classification
                                  EXCEPT !.nodes = entries[e].nodes.val])
                    schema == [nodes |-> got.nodes,
                               qemu |-> merged(entries[e].qemu.val, got.qemu),
                               lxc |-> merged(entries[e].lxc.val, got.lxc),
                               storage |-> merged(as_keys(entries[e].storage.val),
                                                  got.storage)]
                IN flow_result' = [async_show_form("change_expose", {}, Val(schema))
                                     EXCEPT !.built = TRUE, !.resources = resources,
                                            !.data = entries[e]]
        /\ UNCHANGED <<issues, entries, flows>>
        /\ FlowFrame

---------------------------------------------------------------------------
(* Specifications of the flows.                                           *)

InitEntries(es) ==
    /\ issues = {}
    /\ devices = <<>>
    /\ polled = NoEnd
    /\ selection = {}
    /\ coordinators = {}
    /\ pc = [c \in Coordinators |-> "idle"]
    /\ loc = [c \in Coordinators |-> NoLoc]
    /\ data = [c \in Coordinators |-> NoData]
    /\ last_update_success = [c \in Coordinators |-> TRUE]
    /\ scheduled = [c \in Coordinators |-> FALSE]
    /\ reauth = FALSE
    /\ cyc = [c \in Coordinators |-> NoCycle]
    /\ ended = NoEnd
    /\ loaded = FALSE
    /\ storage_id = StorageName
    /\ listing = {}
    /\ cluster = {NodeName}
    /\ entries = es
    /\ flow_result = NoFlow
    /\ native = NoneVal
    /\ flows = NoFlows

\* no entry yet: user flows and imports
InitUser == InitEntries(<<>>)

NextUser ==
    \/ \E f \in FlowIds : async_step_user(f)
    \/ \E f \in FlowIds : async_step_host(f)
    \/ \E f \in FlowIds : async_step_expose(f)
    \/ async_step_import

SpecUser == InitUser /\ [][NextUser]_vars

\* an entry made by a user flow for another host
UserEntry ==
    Entry([host |-> OtherHost, port |-> DEFAULT_PORT, username |-> "root",
           password |-> "secret", realm |-> "pam", verify_ssl |-> TRUE],
          Val(<<OtherNode>>), Val(<<"102">>), Val(<<>>), Val(<<StorageName>>))

\* an entry made by the import of a configuration for another host
ImportedEntry ==
    Entry([host |-> OtherHost, port |-> DEFAULT_PORT, username |-> "root",
           password |-> "secret", realm |-> "pam", verify_ssl |-> TRUE],
          Val(<<NodeName>>), Val(<<VmId>>), Val(<<>>), NoneVal)

\* the selection forms of both flows, beside an entry of another host
InitDiscover == \E e \in {UserEntry, ImportedEntry} : InitEntries(<<e>>)

NextDiscover ==
    \/ \E f \in FlowIds : async_step_user(f)
    \/ \E f \in FlowIds : async_step_host(f)
    \/ change_expose_form

SpecDiscover == InitDiscover /\ [][NextDiscover]_vars

\* the credential flows of two entries
InitAuth ==
    InitEntries(<<UserEntry, [ImportedEntry EXCEPT !.host = Host]>>)

NextAuth ==
    \/ async_step_reauth_confirm
    \/ async_step_host_auth

SpecAuth == InitAuth /\ [][NextAuth]_vars

---------------------------------------------------------------------------
(* Properties of the resource discovery.                                  *)

Elements(l) == { l[i] : i \in DOMAIN l }

\* the sets a selection form offers
Offered(schema) ==
    [nodes |-> Elements(schema.nodes), qemu |-> DOMAIN schema.qemu,
     lxc |-> DOMAIN schema.lxc, storage |-> DOMAIN schema.storage]

\* the entries of a listing of one type
OfType(resources, type) ==
    IF resources = NoneVal THEN {}
    ELSE { r \in Elements(resources.val) : r.type = type }

\* the sets the listing and the entry's selection call for: the config
\* flow keys a storage by its name, the options flow by its id
Listed(step_id, resources, entry) ==
    LET old(field) == IF entry = NoConfig THEN {} ELSE Elements(field.val)
    IN [nodes |-> { r.node : r \in OfType(resources, "node") }
                  \cup (IF entry = NoConfig THEN {} ELSE Elements(entry.nodes.val)),
        qemu |-> { ToString(r.vmid) : r \in OfType(resources, "qemu") }
                 \cup (IF entry = NoConfig THEN {} ELSE Elements(entry.qemu.val)),
        lxc |-> { ToString(r.vmid) : r \in OfType(resources, "lxc") }
                \cup (IF entry = NoConfig THEN {} ELSE Elements(entry.lxc.val)),
        storage |->
            { IF step_id = "expose" THEN <<r.storage>> ELSE r.id :
                r \in { x \in OfType(resources, "storage") : x.storage # None } }
            \cup (IF entry = NoConfig THEN {}
                  ELSE { <<x>> : x \in Elements(entry.storage.val) })]

SelectionForm ==
    /\ flow_result.type = "form"
    /\ flow_result.step_id \in {"expose", "change_expose"}

\* C22: the classification of a selection step depends on the upstream
\* listing (and, in the options flow, on the entry's selection) only:
\* every selection form offers exactly the nodes, VMs, containers and
\* storages of the listing it was answered with, whatever forms were
\* shown before, so that two runs against the same listing offer the same
\* sets.
C22_SameListingSameSets ==
    SelectionForm =>
        Offered(flow_result.schema.val) =
            Listed(flow_result.step_id, flow_result.resources, flow_result.data)

\* a second flow classified a listing of two nodes while the first flow
\* was at its selection form
C22_ClassifiedAgain ==
    /\ SelectionForm
    /\ flow_result.step_id = "expose"
    /\ Cardinality(Offered(flow_result.schema.val).nodes) = 2
    /\ \A f \in FlowIds : flows[f].step_id = "expose"

---------------------------------------------------------------------------
(* ProxmoxDiskCoordinator._async_update_data: the node's disk list, the   *)
(* disk whose wwn, by_id_link or serial is the coordinator's identifier,  *)
(* its SMART attributes and the record.  async_setup_entry constructs the *)
(* coordinator with the disk's devpath as identifier.                     *)

\* an entry of nodes/{node}/disks/list; a key the payload lacks is None
Disk(devpath, wwn, by_id_link, serial, type, rpm, wearout) ==
    [devpath |-> devpath, wwn |-> wwn, by_id_link |-> by_id_link,
     serial |-> serial, type |-> type, rpm |-> rpm, wearout |-> wearout]

\* the answers of the disk list: no disk, the disk under its serial and
\* wwn, and the disk with a link that is the coordinator's identifier
DiskLists ==
    { <<>>,
      <<Disk(DiskId, "0x5000c500", None, "S3Z8", "hdd", Val(7200), NoneVal)>>,
      <<Disk("/dev/sdb", "unknown", None, None, "ssd", NoneVal, Val(3)),
        Disk(DiskId, "unknown", DiskId, "S3Z8", "ssd", Val(0), Val(3))>> }

\* a lookup by the path the coordinator was constructed with
disk_matches_devpath(disk, rid) == <<disk.devpath>> = IdText(rid)

\* the condition of the loop over the disks (lines 732-740)
disk_matches(disk, rid) ==
    \/ disk.wwn # None /\ disk.wwn # "unknown" /\ <<disk.wwn>> = IdText(rid)
    \/ disk.by_id_link # None /\ <<disk.by_id_link>> = IdText(rid)
    \/ disk.serial # None /\ <<disk.serial>> = IdText(rid)

\* the disks of the list that match, in the list's order
RECURSIVE matching(_, _)
matching(disks, rid) ==
    IF disks = <<>> THEN <<>>
    ELSE (IF disk_matches(Head(disks), rid) THEN <<Head(disks)>> ELSE <<>>)
         \o matching(Tail(disks), rid)

\* The words of a SMART value: a numeral, a numeral followed by "h", or
\* any other text.
Num(n) == [n |-> n, h |-> FALSE]
Hours(n) == [n |-> n, h |-> TRUE]
Word(w) == [w |-> w]

\* a line of the text payload split at ":": its name and the words of the
\* value, or no value when the line has no ":"
Line(name, raw) == [name |-> name, raw |-> raw]

\* an attribute of the structured payload
Attribute(id, raw, value) == [id |-> id, raw |-> raw, value |-> value]

\* the text payload "Temperature_Celsius: 194 34 (Min/Max 20/60)"
TemperatureText ==
    [type |-> "text",
     text |-> <<Line("Temperature_Celsius",
                     Val(<<Num(194), Num(34), Word("(Min/Max"), Word("20/60)")>>))>>]

\* the answers of nodes/{node}/disks/smart
SmartBodies ==
    { TemperatureText,
      [type |-> "text",
       text |-> <<Line("SMART/Health Information", NoneVal),
                  Line("Temperature", Val(<<Num(34), Word("Celsius")>>)),
                  Line("Power Cycles", Val(<<Num(12)>>)),
                  Line("Power On Hours", Val(<<Num(960)>>))>>],
      [type |-> "attributes",
       attributes |-> <<Attribute(194, <<Num(34), Word("(Min/Max"), Word("20/60)")>>, 66),
                        Attribute(9, <<Hours(960), Word("+12m")>>, 99),
                        Attribute(231, <<Num(0)>>, 97)>>],
      [type |-> "attributes",
       attributes |-> <<Attribute(12, <<Word("n/a")>>, 100)>>] }

\* text_to_smart_id, and the int() the loop applies to the id
text_to_smart_id(text) ==
    CASE text = "Temperature" -> 194
      [] text = "Power Cycles" -> 12
      [] text = "Power On Hours" -> 9
      [] OTHER -> 0

\* the attributes of a text payload (lines 770-781)
RECURSIVE text_attributes(_)
text_attributes(lines) ==
    IF lines = <<>> THEN <<>>
    ELSE (IF Head(lines).raw # NoneVal
          THEN <<Attribute(text_to_smart_id(Head(lines).name),
                           Head(lines).raw.val, 0)>>
          ELSE <<>>)
         \o text_attributes(Tail(lines))

\* int(text): the number, or ValueError
IsNumeral(words) == Len(words) = 1 /\ "n" \in DOMAIN words[1] /\ ~words[1].h
first_word(raw) == IF raw = <<>> THEN <<>> ELSE <<Head(raw)>>

\* the value of one attribute: [key, words to convert]; power-on hours
\* are the text before an "h", else the first word
smart_value(a) ==
    CASE a.id = 12 -> [key |-> "power_cycles", words |-> a.raw]
      [] a.id = 194 -> [key |-> "temperature", words |-> first_word(a.raw)]
      [] a.id = 190 -> [key |-> "temperature_air", words |-> first_word(a.raw)]
      [] a.id = 9 ->
           [key |-> "power_hours",
            words |-> IF a.raw # <<>> /\ "n" \in DOMAIN Head(a.raw) /\ Head(a.raw).h
                      THEN <<Num(Head(a.raw).n)>>
                      ELSE first_word(a.raw)]
      [] a.id = 231 -> [key |-> "life_left", words |-> <<Num(a.value)>>]
      [] a.id = 174 -> [key |-> "power_loss", words |-> a.raw]
      [] OTHER -> [key |-> None, words |-> <<>>]

NoAttributes ==
    [power_cycles |-> UNDEFINED, temperature |-> UNDEFINED,
     temperature_air |-> UNDEFINED, power_hours |-> UNDEFINED,
     life_left |-> UNDEFINED, power_loss |-> UNDEFINED]

\* the loop over the attributes (lines 783-817): disk_attributes, or the
\* ValueError of an int() of a text that is no numeral
RECURSIVE disk_attributes(_, _)
disk_attributes(attributes_json, acc) ==
    IF attributes_json = <<>> THEN acc
    ELSE LET v == smart_value(Head(attributes_json))
         IN CASE v.key = None -> disk_attributes(Tail(attributes_json), acc)
              [] ~IsNumeral(v.words) -> [error |-> "ValueError"]
              [] OTHER ->
                   disk_attributes(Tail(attributes_json),
                                   [acc EXCEPT ![v.key] = Val(v.words[1].n)])

\* attributes_json of the SMART answer (lines 759-781)
attributes_of(disk_attributes_api) ==
    CASE disk_attributes_api = NoneVal -> <<>>
      [] disk_attributes_api.val.type = "attributes" ->
           disk_attributes_api.val.attributes
      [] OTHER -> text_attributes(disk_attributes_api.val.text)

\* the fields of the dataclass ProxmoxDiskData (models.py)
DiskDataFields ==
    {"type", "node", "size", "health", "serial", "model", "vendor", "path",
     "disk_rpm", "disk_type", "temperature", "power_cycles"}

\* ProxmoxDiskData(**kwargs): the record, or the TypeError of a keyword
\* argument that is no field of the dataclass
ProxmoxDiskData(kwargs) ==
    IF DOMAIN kwargs = DiskDataFields THEN Return(kwargs) ELSE Raise("TypeError")

\* the keyword arguments of the record of a disk that was found
found_disk(rid, disk, attrs) ==
    [type |-> "disk", node |-> NodeName, disk_id |-> IdText(rid),
     path |-> Val(disk.devpath), vendor |-> NoneVal, serial |-> disk.serial,
     model |-> NoneVal, disk_type |-> disk.type,
     disk_wearout |-> IF disk.wearout # NoneVal /\ disk.type \in {"ssd", "nvme"}
                      THEN disk.wearout ELSE UNDEFINED,
     size |-> UNDEFINED, health |-> UNDEFINED,
     disk_rpm |-> IF disk.rpm # NoneVal /\ disk.type \notin {"ssd", "nvme", "usb"}
                  THEN disk.rpm ELSE UNDEFINED,
     temperature_air |-> attrs.temperature_air,
     temperature |-> attrs.temperature,
     power_cycles |-> attrs.power_cycles,
     power_hours |-> attrs.power_hours,
     life_left |-> attrs.life_left,
     power_loss |-> attrs.power_loss]

\* the keyword arguments of the record of a list answered None
undefined_disk(rid) ==
    [type |-> "disk", node |-> NodeName, disk_id |-> IdText(rid),
     path |-> NoneVal, vendor |-> NoneVal, serial |-> None, model |-> NoneVal,
     disk_type |-> None, disk_wearout |-> UNDEFINED, size |-> UNDEFINED,
     health |-> UNDEFINED, disk_rpm |-> UNDEFINED,
     temperature_air |-> UNDEFINED, temperature |-> UNDEFINED,
     power_cycles |-> UNDEFINED, power_hours |-> UNDEFINED,
     life_left |-> UNDEFINED, power_loss |-> UNDEFINED]

\* the disk list and the lookup (lines 695-740, 854-855)
DiskList(c) ==
    /\ c = "disk"
    /\ CanStart(c)
    /\ \E out \in ApiOutcomes, body \in DiskLists :
        LET r == poll_api(issues, resource_id(c), out, TRUE)
            found == matching(body, resource_id(c))
            h == [Seen(c, TRUE, resource_id(c), out, found # <<>>)
                    EXCEPT !.raw = IF r.ret = "data"
                                   THEN Val([list |-> body, smart |-> NoneVal])
                                   ELSE NoneVal]
        IN Step(c, r.issues, devices,
                CASE Raised(r.ret) -> Raise(r.ret)
                  [] r.ret = "None" -> ProxmoxDiskData(undefined_disk(resource_id(c)))
                  [] found = <<>> -> Raise("UpdateFailed")
                  [] OTHER -> Continue("smart", [disk |-> Head(found)]),
                h)

\* the SMART poll of the disk found, whose UpdateFailed is caught, and the
\* record (lines 741-853)
DiskSmart(c) ==
    /\ c = "disk"
    /\ pc[c] = "smart"
    /\ \E out \in ApiOutcomes, body \in SmartBodies :
        LET r == poll_api(issues, resource_id(c), out, TRUE)
            disk_attributes_api == IF r.ret = "data" THEN Val(body) ELSE NoneVal
            attrs == disk_attributes(attributes_of(disk_attributes_api), NoAttributes)
            h == [Seen(c, FALSE, resource_id(c), out, TRUE)
                    EXCEPT !.raw = Val([list |-> cyc[c].raw.val.list,
                                        smart |-> disk_attributes_api])]
        IN Step(c, r.issues, devices,
                CASE Raised(r.ret) /\ r.ret # "UpdateFailed" -> Raise(r.ret)
                  [] "error" \in DOMAIN attrs -> Raise(attrs.error)
                  [] OTHER -> ProxmoxDiskData(found_disk(resource_id(c),
                                                         loc[c].disk, attrs)),
                h)

DiskCycle(c) ==
    \/ DiskList(c)
    \/ DiskSmart(c)

\* a disk of the node and a storage, each with its coordinator
InitDisk == InitCoordinators({"disk", "storage"})

NextDisk ==
    \/ \E c \in Coordinators : DiskCycle(c)
    \/ \E c \in Coordinators : StorageCycle(c)

SpecDisk == InitDisk /\ [][NextDisk]_vars

---------------------------------------------------------------------------
(* Properties of the disk coordinator.                                    *)

\* a cycle of the disk coordinator ended, and its disk list was fetched
DiskListed == ended # NoEnd /\ ended.c = "disk" /\ ended.raw # NoneVal

\* the disk carries the coordinator's identifier as wwn, link or serial
Identified(disk) ==
    \/ disk.wwn \notin {None, "unknown"} /\ disk.wwn = DiskId
    \/ disk.by_id_link = DiskId
    \/ disk.serial = DiskId

\* C23: a Disk cycle whose disk listing was fetched and lists no disk that
\* matches the coordinator's identifier fails with UpdateFailed after that
\* one poll, and the record of the coordinator stays what it was.
C23_LookupMissFails ==
    (/\ DiskListed
     /\ \A disk \in Elements(ended.raw.val.list) : ~Identified(disk))
    => /\ ~ended.ok
       /\ ended.exc = "UpdateFailed"
       /\ ended.polls = 1
       /\ data["disk"] = ended.prev

\* a cycle ended on a list that has a disk, but none with the identifier
C23_ListedWithoutTheDisk ==
    /\ DiskListed
    /\ ended.raw.val.list # <<>>
    /\ \A disk \in Elements(ended.raw.val.list) : ~Identified(disk)
    /\ ended.exc = "UpdateFailed"

\* C24: a Disk cycle whose SMART payload is the raw text
\* "Temperature_Celsius: 194 34 (Min/Max 20/60)" publishes a record whose
\* temperature is 34.
C24_TextTemperature ==
    (DiskListed /\ ended.raw.val.smart = Val(TemperatureText))
    => /\ ended.ok
       /\ data["disk"].temperature = Val(34)

\* a cycle ended whose SMART poll was answered with that text
C24_TextPayloadAnswered ==
    /\ DiskListed
    /\ ended.raw.val.smart = Val(TemperatureText)

---------------------------------------------------------------------------
(* ProxmoxSensorEntity.native_value (sensor.py): the state of a sensor    *)
(* from the coordinator's record and the sensor's description.            *)

\* "maxmem" and "mem" of the status payload of a guest; None: no such key
MemoryBodies ==
    { [maxmem |-> t, mem |-> u] : t \in {NoneVal, Val(0), Val(4), Val(8)},
                                  u \in {NoneVal, Val(0), Val(1), Val(2), Val(4)} }

\* api_status.get(key, UNDEFINED)
get(v) == IF v = NoneVal THEN UNDEFINED ELSE v

\* the memory fields of the record of a guest (coordinator.py 326-332)
ProxmoxVMMemory(api_status) ==
    [type |-> "qemu", node |-> NodeName,
     memory_total |-> get(api_status.maxmem),
     memory_used |-> get(api_status.mem),
     memory_free |-> IF api_status.maxmem # NoneVal /\ api_status.mem # NoneVal
                     THEN Val(api_status.maxmem.val - api_status.mem.val)
                     ELSE UNDEFINED]

\* the descriptions of PROXMOX_SENSOR_MEMORY: the key, the value_fn (named
\* by the field it divides by memory_total) and whether there is a
\* conversion_fn
Description(key, value_fn, conversion_fn) ==
    [key |-> key, value_fn |-> value_fn, conversion_fn |-> conversion_fn]

PROXMOX_SENSOR_MEMORY ==
    { Description("memory_free", None, FALSE),
      Description("memory_free_perc", "memory_free", TRUE),
      Description("memory_total", None, FALSE),
      Description("memory_used", None, FALSE),
      Description("memory_used_perc", "memory_used", TRUE) }

TypeError == [error |-> "TypeError"]

\* a quotient, kept as its two terms
Ratio(num, den) == [num |-> num, den |-> den]

\* lambda x: (x.field / x.memory_total) if x.memory_total > 0 else 0; the
\* UNDEFINED sentinel can be neither compared with 0 nor divided
value_fn(field, rec) ==
    CASE rec.memory_total = UNDEFINED -> TypeError
      [] rec.memory_total.val <= 0 -> Val(Ratio(0, 1))
      [] rec[field] = UNDEFINED -> TypeError
      [] OTHER -> Val(Ratio(rec[field].val, rec.memory_total.val))

\* lambda x: (x * 100) if x > 0 else 0, in whole percents
conversion_fn(x) == IF x.num > 0 THEN (x.num * 100) \div x.den ELSE 0

\* getattr(data, key, False) is falsy: no such field, or a zero
falsy(rec, key) == key \notin DOMAIN rec \/ rec[key] = Val(0)

\* the keys of ProxmoxKeyAPIParse whose falsy value is reported as 0
ZeroKeys == {"cpu", "total", "memory_used", "disk_used", "swap_used"}

\* native_value: Val(n), NoneVal for None, or the exception raised
native_value(description, rec) ==
    LET got == CASE rec = NoData -> NoneVal
                 [] falsy(rec, description.key) ->
                      IF description.value_fn # None
                      THEN value_fn(description.value_fn, rec)
                      ELSE IF description.key \in ZeroKeys THEN Val(0)
                      ELSE NoneVal
                 [] rec[description.key] = UNDEFINED -> NoneVal
                 [] OTHER -> rec[description.key]
    IN IF got \in {NoneVal, TypeError} THEN got
       ELSE IF description.conversion_fn /\ "num" \in DOMAIN got.val
            THEN Val(conversion_fn(got.val))
       ELSE got

\* the entity writes its state: the key of the sensor and its native value
async_write_ha_state ==
    /\ \E description \in PROXMOX_SENSOR_MEMORY :
        native' = [key |-> description.key,
                   value |-> native_value(description, data["qemu"])]
    /\ UNCHANGED <<issues, devices, polled, selection, coordinators, pc, loc,
                   data, last_update_success, scheduled, reauth, cyc, ended,
                   loaded, storage_id, listing, cluster, entries, flow_result,
                   flows>>

\* a guest whose coordinator has a record, or none yet
InitSensor ==
    /\ issues = {}
    /\ devices = <<>>
    /\ polled = NoEnd
    /\ selection = {"qemu"}
    /\ coordinators = {"qemu"}
    /\ pc = [c \in Coordinators |-> "idle"]
    /\ loc = [c \in Coordinators |-> NoLoc]
    /\ \E rec \in {NoData} \cup { ProxmoxVMMemory(b) : b \in MemoryBodies } :
         data = [c \in Coordinators |-> IF c = "qemu" THEN rec ELSE NoData]
    /\ last_update_success = [c \in Coordinators |-> TRUE]
    /\ scheduled = [c \in Coordinators |-> c = "qemu"]
    /\ reauth = FALSE
    /\ cyc = [c \in Coordinators |-> NoCycle]
    /\ ended = NoEnd
    /\ loaded = TRUE
    /\ storage_id = StorageName
    /\ listing = {"qemu"}
    /\ cluster = {NodeName}
    /\ entries = <<>>
    /\ flow_result = NoFlow
    /\ native = NoneVal
    /\ flows = NoFlows

NextSensor == async_write_ha_state

SpecSensor == InitSensor /\ [][NextSensor]_vars

---------------------------------------------------------------------------
(* Properties of the sensors.                                             *)

\* a percentage sensor wrote its state from a record that lacks the total
\* or the field the sensor divides
AbsentTerm ==
    /\ native # NoneVal
    /\ data["qemu"] # NoData
    /\ \/ /\ native.key = "memory_used_perc"
          /\ UNDEFINED \in {data["qemu"].memory_total, data["qemu"].memory_used}
       \/ /\ native.key = "memory_free_perc"
          /\ UNDEFINED \in {data["qemu"].memory_total, data["qemu"].memory_free}

\* C25: a field that is absent is never read as 0 in a percentage: a
\* percentage sensor whose total or divided field is absent reports no
\* data, neither 0% nor an error.
C25_AbsentTermNoData == AbsentTerm => native.value = NoneVal

\* the used-memory percentage was computed from a record without the total
C25_PercentageWithoutTotal ==
    /\ AbsentTerm
    /\ native.key = "memory_used_perc"
    /\ data["qemu"].memory_total = UNDEFINED

---------------------------------------------------------------------------
(* Properties of the flows.                                               *)

\* the names of a nodes listing
NodesOf(listed) == IF listed = NoneVal THEN {} ELSE Elements(listed.val)

\* the nodes of the last import's configuration that the upstream, once
\* connected, did not list
MissingNodes ==
    IF flow_result.step_id = "import" /\ flow_result.outcome = "ok"
    THEN { flow_result.input.nodes[i].node : i \in DOMAIN flow_result.input.nodes }
            \ NodesOf(flow_result.resources)
    ELSE {}

\* C26: an import that names a node the upstream does not have aborts with
\* import_failed, creates no entry and leaves an import_node_not_exist
\* issue keyed by host, port and the node's name.
C26_MissingNodeAborts ==
    \A node \in MissingNodes :
        /\ flow_result.type = "abort"
        /\ flow_result.reason = "import_failed"
        /\ <<host_port(flow_result.input.host, flow_result.input.port)
               \o <<"_", node>>, "import_node_not_exist">> \in issues

\* an import connected and found that its only node is not listed
C26_OnlyNodeMissing ==
    /\ MissingNodes = {"not_exist"}
    /\ Len(flow_result.input.nodes) = 1

\* the issue that an import step ending with outcome out is to open
\* for its host:port
ImportIssue(key, text) == <<key, text>>

\* the import step that just ran aborted, created no entry and opened
\* exactly the issue text for its host:port
ImportFailedWith(text) ==
    /\ flow_result'.type = "abort"
    /\ flow_result'.reason = "import_failed"
    /\ entries' = entries
    /\ issues' = issues \cup
          {ImportIssue(host_port(flow_result'.input.host,
                                 flow_result'.input.port), text)}

\* C27: an import for a host:port that is already configured, or whose
\* connection fails with an authentication error, a TLS error, a connect
\* timeout or any other exception, aborts with import_failed, creates no
\* entry and opens exactly the matching import issue of that host:port; an
\* import that connects and finds its nodes creates the entry and opens
\* the import_success issue.
C27_ImportOutcomes ==
    [][flow_result'.step_id = "import" =>
         LET r == flow_result'
             key == host_port(r.input.host, r.input.port)
         IN CASE key \in current_entries(entries) ->
                   ImportFailedWith("import_already_configured")
              [] r.outcome = "AuthenticationError" ->
                   ImportFailedWith("import_auth_error")
              [] r.outcome = "SSLError" ->
                   ImportFailedWith("import_ssl_rejection")
              [] r.outcome = "ConnectTimeout" ->
                   ImportFailedWith("import_cant_connect")
              [] r.outcome = "Exception" ->
                   ImportFailedWith("import_general_error")
              [] \A i \in DOMAIN r.input.nodes :
                     r.input.nodes[i].node \in NodesOf(r.resources) ->
                   /\ r.type = "create_entry"
                   /\ entries' = Append(entries, r.data)
                   /\ r.data.host = r.input.host /\ r.data.port = r.input.port
                   /\ issues' = issues \cup {ImportIssue(key, "import_success")}
              [] OTHER -> TRUE]_vars

\* an import was refused by TLS after another had failed to authenticate:
\* both issues are open and there is no entry
C27_TwoFailedImports ==
    /\ flow_result.step_id = "import"
    /\ flow_result.outcome = "SSLError"
    /\ entries = <<>>
    /\ issues = {ImportIssue(host_port(Host, DEFAULT_PORT), "import_auth_error"),
                 ImportIssue(host_port(Host, DEFAULT_PORT), "import_ssl_rejection")}

\* the errors of a form, without the fields they are attached to
ErrorsOf(result) == { e[2] : e \in result.errors }

\* the port the user gave is outside 1..65535
InvalidPort(input) == input.port < 1 \/ input.port > 65535

\* C28: the host step, given a host:port that is not configured yet and
\* either a port outside 1..65535 or a connection that fails, shows the
\* host form again with the error of the failure's class, leaves the flow
\* at the host step and creates no entry; an invalid port is rejected
\* without a connection attempt.
C28_HostFailures ==
    [][(/\ flow_result'.input \in HostInputs
        /\ host_port(flow_result'.input.host, flow_result'.input.port)
              \notin current_entries(entries)
        /\ \/ InvalidPort(flow_result'.input)
           \/ flow_result'.outcome \notin {None, "ok"})
       =>
       /\ flow_result'.type = "form"
       /\ flow_result'.step_id = "host"
       /\ ErrorsOf(flow_result') =
            {CASE InvalidPort(flow_result'.input) -> "invalid_port"
               [] flow_result'.outcome = "AuthenticationError" -> "auth_error"
               [] flow_result'.outcome = "SSLError" -> "ssl_rejection"
               [] flow_result'.outcome = "ConnectTimeout" -> "cant_connect"
               [] flow_result'.outcome = "Exception" -> "general_error"}
       /\ InvalidPort(flow_result'.input) => ~flow_result'.built
       /\ flows' = flows
       /\ \E f \in FlowIds : flows[f].step_id = "host"
       /\ entries' = entries]_vars

\* the host step refused a port above 65535 while an entry of another
\* flow exists
C28_PortRefused ==
    /\ flow_result.input \in HostInputs
    /\ flow_result.input.port > 65535
    /\ flow_result.type = "form"
    /\ Len(entries) = 1

\* C29: no two entries have the same host and port, whatever user and
\* import flows ran.
C29_OneEntryPerHostPort ==
    \A i, j \in DOMAIN entries :
        i # j => host_port(entries[i].host, entries[i].port)
                   # host_port(entries[j].host, entries[j].port)

\* a user flow passed the host step and waits at the selection form while
\* an entry for its host:port exists
C29_SelectionFormOfConfiguredHost ==
    \E f \in FlowIds :
        /\ flows[f].step_id = "expose"
        /\ host_port(flows[f].config.host, flows[f].config.port)
              \in current_entries(entries)

\* the fields of the entry that a credential step may write
Credentials(step_id) ==
    IF step_id = "host_auth"
    THEN {"username", "password", "realm", "verify_ssl"}
    ELSE {"username", "password", "realm"}

\* C30: a credential step (reauth_confirm, host_auth) whose connection
\* fails shows its form again with the error of the failure's class and
\* leaves the entries as they were; one whose connection succeeds writes
\* the credentials given into one entry (verify_ssl only in host_auth),
\* keeps every other field of it, host, port and selection included, keeps
\* the other entries and adds none.
C30_CredentialsOnly ==
    [][flow_result'.step_id \in {"reauth_confirm", "host_auth"} =>
         LET r == flow_result'
         IN IF r.outcome # "ok"
            THEN /\ r.type = "form"
                 /\ ErrorsOf(r) =
                      {CASE r.outcome = "AuthenticationError" -> "auth_error"
                         [] r.outcome = "SSLError" -> "ssl_rejection"
                         [] r.outcome = "ConnectTimeout" -> "cant_connect"
                         [] r.outcome = "Exception" -> "general_error"}
                 /\ entries' = entries
            ELSE /\ Len(entries') = Len(entries)
                 /\ \E e \in DOMAIN entries :
                      /\ \A o \in DOMAIN entries \ {e} : entries'[o] = entries[o]
                      /\ DOMAIN entries'[e] = DOMAIN entries[e]
                      /\ \A k \in DOMAIN entries[e] :
                           entries'[e][k] = IF k \in Credentials(r.step_id)
                                            THEN r.input[k]
                                            ELSE entries[e][k]]_vars

\* a reauthentication gave the first entry new credentials; its
\* verify_ssl, which the form does not have, is as before
C30_Reauthenticated ==
    /\ flow_result.step_id = "reauth_confirm"
    /\ flow_result.reason = "reauth_successful"
    /\ entries[1].username = "admin"
    /\ entries[1].verify_ssl
    /\ entries[2].username = "root"

---------------------------------------------------------------------------
(* Properties of the node's details.                                      *)

\* a cycle of the node ended in which the node was online, every poll
\* was answered with data or with 403, a detail poll with 403, and every
\* listed container has a status
DetailDenied ==
    /\ ended # NoEnd
    /\ ended.c = "node"
    /\ ended.node = "online"
    /\ ended.polls = 5
    /\ ended.answered
    /\ ended.denied # {}
    /\ has_status(ended.raw.val.lxc)

\* C31: a node cycle whose version, VM list or container list poll is
\* answered 403 does not fail: it publishes the record, in which the
\* detail that was denied is absent and the details that were fetched are
\* present.
C31_DeniedDetailAbsent ==
    DetailDenied =>
        /\ ended.ok
        /\ data["node"].version = UNDEFINED <=> "version" \in ended.denied
        /\ data["node"].qemu_on_list = UNDEFINED <=> "qemu" \in ended.denied
        /\ data["node"].lxc_on_list = UNDEFINED <=> "lxc" \in ended.denied

\* the version poll alone was answered 403
C31_VersionDenied ==
    /\ DetailDenied
    /\ ended.denied = {"version"}

---------------------------------------------------------------------------
(* Properties of the forbidden issues shared between coordinators.        *)

\* C32: a forbidden issue that a poll answered 403 has opened is deleted
\* only by a successful repeat of that poll: the call that deletes it is
\* made by the same coordinator for the same resource, not by another
\* coordinator or on behalf of another resource.
C32_DeletedByRepeatOnly ==
    [][(/\ Called
        /\ polled.ret = "None"
        /\ polled'.ret = "data"
        /\ forbiden_issue_id(polled.resource_id) \in issues
        /\ forbiden_issue_id(polled.resource_id) \notin issues')
       =>
       /\ polled'.by = polled.by
       /\ polled'.api_category = polled.api_category
       /\ polled'.resource_id = polled.resource_id]_vars

\* the update coordinator's listing of the nodes succeeded while the
\* forbidden issue under the node's name was open
C32_UpdateListsNodes ==
    /\ Called
    /\ polled.by = Caller("update", NodeName)
    /\ polled.api_category = "nodes"
    /\ polled.ret = "data"
    /\ forbiden_issue_id(StrId(NodeName)) \in polled.before
    /\ forbiden_issue_id(StrId(NodeName)) \notin issues

---------------------------------------------------------------------------
(* Properties of the storage's identifier.                                *)

\* C33: for a selected storage that the live listing has, the identifier
\* the flow stored is accepted by the setup (no resource_nonexistent
\* issue, a coordinator) and matched by the coordinator, whose cycle,
\* answered with the storage's data, publishes a record.
C33_OfferedIdAccepted ==
    "storage" \in listing =>
        /\ nonexistent_issue_id(IdText(StrId(storage_id))) \notin issues
        /\ "storage" \in coordinators
        /\ (Ended("storage") /\ ended.good) => ended.ok

\* the storage was selected by the name the first flow offers, the setup
\* accepted it, and both polls of its cycle were answered with its data
C33_NameAcceptedAndPolled ==
    /\ "storage" \in listing \cap coordinators
    /\ storage_id = StorageName
    /\ Ended("storage")
    /\ ended.polls = 2
    /\ ended.good

---------------------------------------------------------------------------
(* Properties of the disk's device link.                                  *)

\* the device of the coordinator's disk
DiskDevice == device_info("DISK", NodeName, resource_id("disk"), NoData).identifier

\* a cycle of the disk coordinator ended whose two polls were answered
\* with a list that has the disk and with its SMART data
DiskAnswered ==
    /\ DiskListed
    /\ ended.polls = 2
    /\ ended.good

\* C34: a disk refresh whose polls are answered with the disk's data
\* succeeds and leaves the disk's device in the registry with the link to
\* its node's device recomputed and stored.
C34_DiskLinkReconciled ==
    DiskAnswered =>
        /\ ended.ok
        /\ DiskDevice \in DOMAIN devices
        /\ devices[DiskDevice] = via_device_id(devices, NodeName)

\* the disk was found by its link and its SMART attributes were read
C34_DiskFoundAndRead ==
    /\ DiskAnswered
    /\ ended.raw.val.smart # NoneVal
    /\ \E disk \in Elements(ended.raw.val.list) : disk.by_id_link = DiskId

---------------------------------------------------------------------------
(* The end of async_setup_entry: device_info(create=True) makes the       *)
(* device of every node whose first refresh brought a record, after the   *)
(* first refresh of every coordinator, the guests' included.              *)

\* device_info(api_category=Node, node=node, create=True)
create_node_device(node) ==
    /\ loaded
    /\ devices' = async_get_or_create(devices,
                      device_info("NODE", node, NoneId, NoData).identifier)
    /\ ended' = NoEnd
    /\ UNCHANGED <<issues, polled, selection, coordinators, pc, loc, data,
                   last_update_success, scheduled, reauth, cyc, loaded,
                   storage_id, listing, cluster, entries, flow_result, native,
                   flows>>

\* A VM whose refreshes and the creation of the nodes' devices come in
\* any order.
NextLink ==
    \/ \E c \in Coordinators : QemuCycle(c)
    \/ \E node \in cluster : create_node_device(node)

SpecLink == InitGuest /\ [][NextLink]_vars

---------------------------------------------------------------------------
(* Properties of the order of refreshes and node devices.                 *)

---------------------------------------------------------------------------
(* Properties of the first refresh.                                       *)

\* the step ends the first refresh of a coordinator, and the refresh failed
FirstRefreshFails ==
    /\ ended' # NoEnd
    /\ ended' # ended
    /\ ~ended'.ok
    /\ ended'.prev = NoData
    /\ ended'.wasok

---------------------------------------------------------------------------
(* Properties of the identifier of a disk coordinator.                    *)

\* the disks of the listing fetched that async_setup_entry creates this
\* coordinator from: disk_id = disk["devpath"]
CreatedFrom ==
    { disk \in Elements(ended.raw.val.list) :
        <<disk.devpath>> = IdText(resource_id("disk")) }

\* C37: whenever the listing fetched by a disk cycle holds the disk whose
\* devpath the coordinator was created with, the matching rule accepts
\* that disk for the coordinator's identifier.
C37_CreatedDiskMatches ==
    DiskListed =>
        \A disk \in CreatedFrom : disk_matches(disk, resource_id("disk"))

\* the listing holds the coordinator's disk under its wwn and serial, and
\* the cycle failed at the lookup
C37_ListedDiskNotFound ==
    /\ DiskListed
    /\ \E disk \in CreatedFrom :
          /\ disk.wwn \notin {None, "unknown"}
          /\ disk.serial # None
    /\ ~ended.ok
    /\ ended.exc = "UpdateFailed"
    /\ ended.polls = 1

---------------------------------------------------------------------------
(* The options flow's selection step with the operator's input:           *)
(* async_process_selection_changes, the update of the entry and its       *)
(* reload.  The entry's data holds the identifiers as they were stored:   *)
(* strings by the flows, integers by the YAML import (cv.positive_int),   *)
(* which async_migrate_entry carries over and completes with an empty     *)
(* storage list.  The form's multi_select hands in strings.  flow_result  *)
(* keeps the entry's data before the step (data), the input, the devices  *)
(* async_remove_device was called for (removed), the issues deleted by    *)
(* the processing (deleted) and the selection it returned.                *)

Kinds == {"nodes", "qemu", "lxc", "storage"}

OptionsEntry(qemu, lxc, storage) ==
    Entry([host |-> Host, port |-> DEFAULT_PORT, username |-> "root",
           password |-> "secret", realm |-> "pam", verify_ssl |-> TRUE],
          Val(<<StrId(NodeName)>>), Val(qemu), Val(lxc), Val(storage))

\* an entry made by the user flow
FlowEntry ==
    OptionsEntry(<<StrId(VmId)>>, <<StrId(CtId)>>, <<StrId(StorageName)>>)

\* an entry imported from YAML and migrated to the current version
MigratedEntry == OptionsEntry(<<IntId(VmId)>>, <<IntId(CtId)>>, <<>>)

\* user_input of the selection form
ChangeInputs ==
    [nodes : {<<>>, <<StrId(NodeName)>>},
     qemu : {<<>>, <<StrId(VmId)>>},
     lxc : {<<>>, <<StrId(CtId)>>},
     storage : {<<>>, <<StrId(StorageName)>>},
     disks_enable : BOOLEAN]

\* what the upstream lists at a setup: every kind, or all but the VMs
Upstreams == { Kinds, Kinds \ {"qemu"} }

\* ProxmoxType.X.upper() of the device identifier of each list
KindOf(k) ==
    CASE k = "nodes" -> "NODE"
      [] k = "qemu" -> "QEMU"
      [] k = "lxc" -> "LXC"
      [] k = "storage" -> "STORAGE"

\* the key under which async_setup_entry stores the coordinators
coordinator_key(c) ==
    CASE c = "node" -> <<NodeName>>
      [] c = "update" -> <<"update", "_", NodeName>>
      [] c = "disk" -> <<NodeName, "_", "disk">>
      [] c = "qemu" -> <<VmId>>
      [] c = "storage" -> <<StorageName>>

\* the key under which the options flow looks the disk coordinators up
disk_coordinators_key(node) == <<"disk", "_">> \o node

\* "x not in selection": Python compares 101 and "101" unequal
not_in(old, new) == { old[i] : i \in { j \in DOMAIN old : old[j] \notin Elements(new) } }

\* every identifier compared by its text
not_in_text(old, new) ==
    { old[i] : i \in { j \in DOMAIN old :
                         IdText(old[j]) \notin { IdText(n) : n \in Elements(new) } } }

\* the disk devices the loop over a node's disk coordinators removes
disk_devices(node, keys) ==
    IF disk_coordinators_key(IdText(node)) \in keys /\ data["disk"] # NoData
    THEN { device_identifier("DISK", IdText(node) \o <<"_", data["disk"].path>>) }
    ELSE {}

\* async_process_selection_changes: what it removes, deletes and returns
async_process_selection_changes(entry, user_input, keys) ==
    LET gone(k) == not_in(entry[k].val, user_input[k])
        disks == UNION { disk_devices(n, keys) :
                         n \in { m \in Elements(entry.nodes.val) :
                                   \/ m \notin Elements(user_input.nodes)
                                   \/ ~user_input.disks_enable } }
    IN [removed |-> UNION { { device_identifier(KindOf(k), IdText(r)) : r \in gone(k) }
                            : k \in Kinds } \cup disks,
        deleted |-> UNION { { nonexistent_issue_id(IdText(r)) : r \in gone(k) }
                            : k \in Kinds },
        returned |-> [k \in Kinds |-> user_input[k]]]

\* the kinds of the entry that have a coordinator name in this model
Named(entry) ==
    { c \in {"node", "qemu", "storage"} :
        entry[IF c = "node" THEN "nodes" ELSE c].val # <<>> }

\* the resource_nonexistent issues of the entry's resources of some kinds
nonexistent_issues(entry, ks) ==
    UNION { { nonexistent_issue_id(IdText(r)) : r \in Elements(entry[k].val) }
            : k \in ks }

\* the entry's data with the selection the processing returned
updated(entry, returned) ==
    [entry EXCEPT !.nodes = Val(returned.nodes), !.qemu = Val(returned.qemu),
                  !.lxc = Val(returned.lxc), !.storage = Val(returned.storage)]

\* the coordinators async_setup_entry makes for the entry
setup_entry_coordinators(entry, live, disks_enable) ==
    LET found == { c \in Named(entry) :
                     (IF c = "node" THEN "nodes" ELSE c) \in live }
    IN found \cup (IF "node" \in found
                   THEN {"update"} \cup (IF disks_enable THEN {"disk"} ELSE {})
                   ELSE {})

\* The whole step: the selection is processed, the entry updated and
\* reloaded.  live: the kinds the upstream has at the setup; created: the
\* node's device is made, its first refresh having brought a record.
async_step_change_expose ==
    /\ loaded
    /\ \E e \in DOMAIN entries, user_input \in ChangeInputs :
       \E got \in { async_process_selection_changes(entries[e], user_input,
                        { coordinator_key(c) : c \in coordinators }) } :
       \E config_data \in { updated(entries[e], got.returned) } :
       \E live \in Upstreams, created \in BOOLEAN :
       \E made \in { setup_entry_coordinators(config_data, live,
                                               user_input.disks_enable) } :
       \E kept \in { [d \in DOMAIN devices \ got.removed |-> devices[d]] } :
          /\ entries' = [entries EXCEPT ![e] = config_data]
          /\ issues' = ((issues \ got.deleted)
                          \ nonexistent_issues(config_data, live))
                       \cup nonexistent_issues(config_data, Kinds \ live)
          /\ devices' = IF "node" \in made /\ created
                        THEN async_get_or_create(kept,
                                 device_identifier("NODE", <<NodeName>>))
                        ELSE kept
          /\ flow_result' =
                 [async_abort("change_expose", "changes_successful")
                    EXCEPT !.data = entries[e], !.input = user_input,
                           !.removed = got.removed, !.deleted = got.deleted,
                           !.returned = Val(got.returned)]
          /\ selection' = Named(config_data)
          /\ listing' = made \ {"update", "disk"}
          /\ coordinators' = made
          /\ scheduled' = [c \in Coordinators |-> c \in made]
    /\ pc' = [c \in Coordinators |-> "idle"]
    /\ loc' = [c \in Coordinators |-> NoLoc]
    /\ data' = [c \in Coordinators |-> NoData]
    /\ last_update_success' = [c \in Coordinators |-> TRUE]
    /\ cyc' = [c \in Coordinators |-> NoCycle]
    /\ ended' = NoEnd
    /\ UNCHANGED <<polled, reauth, loaded, storage_id, cluster, native, flows>>

\* An entry set up, with the issues of the resources its setup missed and
\* the devices its resources have had so far.
InitOptions ==
    \E entry \in {FlowEntry, MigratedEntry} :
    \E live \in Upstreams, disks \in BOOLEAN :
    \E had \in SUBSET UNION { { device_identifier(KindOf(k), IdText(r)) :
                                r \in Elements(entry[k].val) } : k \in Kinds } :
        LET made == setup_entry_coordinators(entry, live, disks)
        IN /\ entries = <<entry>>
           /\ issues = nonexistent_issues(entry, Kinds \ live)
           /\ devices = [d \in had |-> NoDevice]
           /\ selection = Named(entry)
           /\ listing = made \ {"update", "disk"}
           /\ coordinators = made
           /\ scheduled = [c \in Coordinators |-> c \in made]
           /\ polled = NoEnd
           /\ pc = [c \in Coordinators |-> "idle"]
           /\ loc = [c \in Coordinators |-> NoLoc]
           /\ data = [c \in Coordinators |-> NoData]
           /\ last_update_success = [c \in Coordinators |-> TRUE]
           /\ reauth = FALSE
           /\ cyc = [c \in Coordinators |-> NoCycle]
           /\ ended = NoEnd
           /\ loaded = TRUE
           /\ storage_id = StorageName
           /\ cluster = {NodeName}
           /\ flow_result = NoFlow
           /\ native = NoneVal
           /\ flows = NoFlows

NextOptions == async_step_change_expose

SpecOptions == InitOptions /\ [][NextOptions]_vars

---------------------------------------------------------------------------
(* Properties of the selection changes.                                   *)

\* the selection step last run processed the operator's input
SelectionChanged ==
    /\ flow_result.step_id = "change_expose"
    /\ flow_result.reason = "changes_successful"

\* the resources of a list selected before the step and not after it
Deselected(k) == not_in_text(flow_result.data[k].val, flow_result.input[k])

\* C38: the processing removes the device and deletes the
\* resource_nonexistent issue of exactly the resources selected before and
\* absent from the operator's input, so the device and the issue of a
\* resource that stays selected are not touched, and the selection it
\* returns is the operator's input.
C38_ExactlyTheDeselected ==
    SelectionChanged =>
        /\ \A k \in Kinds :
             \A r \in Elements(flow_result.data[k].val) :
               /\ device_identifier(KindOf(k), IdText(r)) \in flow_result.removed
                    <=> r \in Deselected(k)
               /\ nonexistent_issue_id(IdText(r)) \in flow_result.deleted
                    <=> r \in Deselected(k)
        /\ \A k \in Kinds : flow_result.returned.val[k] = flow_result.input[k]

\* a VM stored as an integer was kept selected by the operator, and its
\* device was removed from the registry
C38_KeptVmLosesDevice ==
    /\ SelectionChanged
    /\ flow_result.data.qemu.val = <<IntId(VmId)>>
    /\ flow_result.input.qemu = <<StrId(VmId)>>
    /\ device_identifier("QEMU", <<VmId>>) \in flow_result.removed
    /\ device_identifier("QEMU", <<VmId>>) \notin DOMAIN devices
    /\ entries[1].qemu.val = <<StrId(VmId)>>

---------------------------------------------------------------------------
(* api.post_api_command, called by the press of a button.  polled keeps   *)
(* the last call: its arguments, whether the POST was made and how it was *)
(* answered (out), what the call returned or raised (ret), the issue id   *)
(* it computed and the issue registry before it.                          *)

\* const.ProxmoxCommand
ProxmoxCommand == {"reboot", "resume", "shutdown", "start", "stop", "suspend",
                   "reset", "startall", "stopall", "hibernate"}

\* the commands of the calls: those of the buttons, and one that is none
Commands == {"start", "startall", "hibernate", "invalid"}

\* f"{self.config_entry.entry_id}_{vm_id}_command_forbiden"
command_forbiden_issue_id(text) == <<text, "command_forbiden">>

\* what proxmox.post can do: "ok", or what it raises
PostOutcomes == {"ok", "Forbidden403", "ResourceException", "ConnectTimeout",
                 "SSLError", "ConnectionError"}

\* the try/except of post_api_command and what follows it: the value
\* returned or the exception raised, and the issue registry after it
post_api_except(iss, issue_id, out) ==
    CASE out = "ok" ->
            [ret |-> "data", issues |-> iss \ {issue_id}]
      [] out = "Forbidden403" ->
            [ret |-> "HomeAssistantError", issues |-> iss \cup {issue_id}]
      [] out = "ResourceException" ->
            \* the clause handles no other status and raises nothing:
            \* the call goes on to delete the issue and returns None
            [ret |-> "None", issues |-> iss \ {issue_id}]
      [] out = "ConnectTimeout" ->
            \* the message reads resource, which only the 403 branch binds
            [ret |-> "UnboundLocalError", issues |-> iss]
      [] OTHER ->
            [ret |-> out, issues |-> iss]

\* post_api_command(self, proxmox_client, api_category, command, node, vm_id)
post_api_command(api_category, command, node, vm_id) ==
    LET issue_id == command_forbiden_issue_id(
                        IF api_category = "node" THEN <<node>> ELSE IdText(vm_id))
        call == [c |-> "command", api_category |-> api_category,
                 command |-> command, issue |-> issue_id, before |-> issues,
                 posted |-> FALSE, out |-> None, ret |-> None]
    IN IF command \notin ProxmoxCommand
       THEN /\ polled' = [call EXCEPT !.ret = "ValueError"]
            /\ UNCHANGED issues
       ELSE \E out \in PostOutcomes :
              \E r \in { post_api_except(issues, issue_id, out) } :
                /\ polled' = [call EXCEPT !.posted = TRUE, !.out = out,
                                          !.ret = r.ret]
                /\ issues' = r.issues

CommandFrame ==
    UNCHANGED <<devices, selection, coordinators, pc, loc, data,
                last_update_success, scheduled, reauth, cyc, ended, loaded,
                storage_id, listing, cluster, entries, flow_result, native,
                flows>>

\* a direct call of the function with any command
command_call ==
    /\ loaded
    /\ \E api_category \in {"node", "qemu", "lxc"}, command \in Commands :
         post_api_command(api_category, command, NodeName,
                          IF api_category = "lxc" THEN StrId(CtId)
                          ELSE StrId(VmId))
    /\ CommandFrame

\* _button_press of a node's or a VM's button: a guest whose coordinator
\* has no record yet is left alone
button_press ==
    /\ loaded
    /\ \E api_category \in {"node", "qemu"},
          command \in Commands \cap ProxmoxCommand :
         IF api_category # "node" /\ data["qemu"] = NoData
         THEN /\ polled' = [c |-> "button", api_category |-> api_category,
                            command |-> command, posted |-> FALSE]
              /\ UNCHANGED issues
         ELSE post_api_command(api_category, command,
                               IF api_category = "node" THEN NodeName
                               ELSE data["qemu"].node,
                               resource_id("qemu"))
    /\ CommandFrame

\* a node and a VM, whose coordinator has a record or none yet
InitCommand ==
    /\ issues = {}
    /\ devices = <<>>
    /\ polled = NoEnd
    /\ selection = {"node", "qemu"}
    /\ coordinators = {"node", "qemu"}
    /\ pc = [c \in Coordinators |-> "idle"]
    /\ loc = [c \in Coordinators |-> NoLoc]
    /\ \E rec \in { NoData,
                    ProxmoxVMData(NodeName, [status |-> "running", lock |-> None]) } :
         data = [c \in Coordinators |-> IF c = "qemu" THEN rec ELSE NoData]
    /\ last_update_success = [c \in Coordinators |-> TRUE]
    /\ scheduled = [c \in Coordinators |-> c \in {"node", "qemu"}]
    /\ reauth = FALSE
    /\ cyc = [c \in Coordinators |-> NoCycle]
    /\ ended = NoEnd
    /\ loaded = TRUE
    /\ storage_id = StorageName
    /\ listing = {"node", "qemu"}
    /\ cluster = {NodeName}
    /\ entries = <<>>
    /\ flow_result = NoFlow
    /\ native = NoneVal
    /\ flows = NoFlows

NextCommand ==
    \/ command_call
    \/ button_press

SpecCommand == InitCommand /\ [][NextCommand]_vars

---------------------------------------------------------------------------
(* Properties of post_api_command.                                        *)

\* the last step was a call of post_api_command
Commanded == polled.c = "command"

\* C39: a call opens its command_forbidden issue exactly when the POST is
\* answered 403 and deletes it only when the POST succeeded; any other
\* error of the POST is raised to the caller and leaves the issue registry
\* as it was; an invalid command is rejected before any POST.
C39_IssueFollowsThePost ==
    Commanded =>
        /\ polled.out = "Forbidden403" => polled.issue \in issues
        /\ polled.issue \in issues \ polled.before => polled.out = "Forbidden403"
        /\ polled.issue \in polled.before \ issues => polled.out = "ok"
        /\ (polled.posted /\ polled.out \notin {"ok", "Forbidden403"})
              => /\ polled.ret \notin {"data", "None"}
                 /\ issues = polled.before
        /\ polled.command \notin ProxmoxCommand
              => /\ ~polled.posted
                 /\ polled.ret = "ValueError"
                 /\ issues = polled.before

\* a POST answered with an error status other than 403 returned None and
\* deleted the issue an earlier 403 had opened
C39_ErrorStatusDeletesIssue ==
    /\ Commanded
    /\ polled.posted
    /\ polled.out = "ResourceException"
    /\ polled.ret = "None"
    /\ polled.issue \in polled.before
    /\ polled.issue \notin issues

---------------------------------------------------------------------------
(* Properties of a field that is 0.                                       *)

\* a sensor without value_fn wrote its state from a record
FieldRead ==
    /\ native # NoneVal
    /\ data["qemu"] # NoData
    /\ native.key \in DOMAIN data["qemu"]

\* C40: a sensor whose field is the number 0 presents 0, and a sensor
\* whose field is absent presents no data.
C40_ZeroPresentedAsZero ==
    FieldRead =>
        /\ data["qemu"][native.key] = Val(0) => native.value = Val(0)
        /\ data["qemu"][native.key] = UNDEFINED => native.value = NoneVal

\* the free memory of a guest that uses all of its memory is 0, and its
\* sensor presents no data
C40_NoFreeMemoryNoData ==
    /\ FieldRead
    /\ native.key = "memory_free"
    /\ data["qemu"].memory_total = Val(4)
    /\ data["qemu"].memory_used = Val(4)
    /\ data["qemu"].memory_free = Val(0)
    /\ native.value = NoneVal

====
